---- MODULE Spec2Model ----
(***************************************************************************)
(* Z2mAdapter (src/src/z2madapter.cpp) and its MqttClient / MqttWorker     *)
(* (src/src/mqtt/mqttclient.cpp) as a state machine.                       *)
(*                                                                         *)
(* Three threads take steps:                                               *)
(*   - the adapter thread: host calls (start, stop, ...), timer callbacks  *)
(*     and the handlers of the events queued to it (evq);                  *)
(*   - the worker thread of MqttClient: the queued connectToHost /         *)
(*     disconnectFromHost invocations (wreq);                              *)
(*   - the mosquitto loop thread: the connect / disconnect / message       *)
(*     callbacks, whose signals are queued to the adapter thread.          *)
(* Every handler is one atomic step; act names the last step and out is    *)
(* what that step emitted and published, in order.                         *)
(***************************************************************************)
EXTENDS Integers, Sequences, FiniteSets, TLC

MaxQueue == 3
MaxReq == 2

Hosts == {"", "broker"}
Names == {"lamp", "desk"}
Ieees == {"0xA"}
CmdIds == {1, 2}
DeviceIds == {"0xA"}
ChannelInputs == {"color", "temperature", "nochannel"}
Values == {[type |-> "Bool", v |-> "true"], [type |-> "Color", v |-> "red"]}
RenameIds == {"0xA", ""}
RenameNames == {"desk", " "}

MaxBurst == 2
MaxRenameTimers == 2
MaxDeferred == 1
MaxInFlight == 1

kAccessSet == 2
kPostSetRefreshMs == 1000
kRenameTimeoutMs == 10000

VARIABLES
  ip,                  \* adapter().ip.trimmed()
  m_client,            \* m_client != nullptr
  clientState,         \* MqttClient::m_state of the adapter's client
  m_connected,
  m_mqttConnected,
  m_bridgeOnline,
  m_lastSeenRequested,
  m_pendingFullSync,
  reconnectActive,     \* m_reconnectTimer && m_reconnectTimer->isActive()
  wreq,                \* invocations queued to the worker thread
  wstate,              \* MqttWorker::m_state
  m_mosq,              \* MqttWorker::m_mosq != nullptr
  sockOpen,            \* the mosquitto loop thread runs a session
  evq,                 \* signals queued to the adapter thread
  crashed,             \* the process died on a null m_client dereference
  act,                 \* the last step
  out,                 \* what the last step emitted / published
  prevConnected,       \* m_connected before the last step
  lastCsc,             \* last connectionStateChanged value before the last step
  connFail,            \* the last connect attempt failed in mosquitto_connect
  m_devices,           \* mqtt id -> entry
  m_mqttByExternal,    \* external id -> mqtt id
  m_pendingRename,     \* external id -> (cmdId, targetName)
  m_pendingStatePayloads, \* mqtt id -> buffered state payload
  m_postSetRefreshTimers, \* mqtt id -> isActive() of its refresh timer
  renameTimers,        \* the running singleShot(10000) timers, oldest first: the
                       \* captured deviceId, and the cmd id of the call that armed it
  deferred,            \* the posted singleShot(0) connectivity defaults
  burst,               \* mqtt id -> commands that (re)started its running refresh timer
  sessionCsc,          \* connectionStateChanged(true) was emitted since the last
                       \* connected signal of the client was handled
  overtaken,           \* a message handled after the oldest posted connectivity
                       \* default was scheduled emitted an event for its device
  m_coordinatorId,     \* external id of the coordinator, "" while none was seen
  m_pendingBridgeInfo, \* the buffered bridge/info payload, "" for an empty object
  removedIds,          \* the device ids whose last registry event was deviceRemoved
  m_hostname,          \* MqttWorker::m_hostname at the last mosquitto_connect
  mosqDisconnect       \* mosquitto_disconnect closed the session or found it
                       \* lost: the loop thread's on_disconnect is due

vars == <<ip, m_client, clientState, m_connected, m_mqttConnected, m_bridgeOnline,
          m_lastSeenRequested, m_pendingFullSync, reconnectActive, wreq, wstate,
          m_mosq, sockOpen, evq, crashed, act, out, prevConnected, lastCsc, connFail,
          m_devices, m_mqttByExternal, m_pendingRename, m_pendingStatePayloads,
          m_postSetRefreshTimers, renameTimers, deferred, burst, sessionCsc,
          overtaken, m_coordinatorId, m_pendingBridgeInfo, removedIds, m_hostname,
          mosqDisconnect>>

adapterVars == <<m_connected, m_mqttConnected, m_bridgeOnline, m_lastSeenRequested,
                 m_pendingFullSync, reconnectActive>>
workerVars == <<wstate, m_mosq, sockOpen, m_hostname, mosqDisconnect>>
connVars == <<ip, m_client, clientState, adapterVars, wreq, workerVars, crashed, connFail>>
registryVars == <<m_devices, m_mqttByExternal, m_pendingRename, m_pendingStatePayloads,
                  deferred>>
timerVars == <<m_postSetRefreshTimers, renameTimers, burst>>

(***************************************************************************)
(* Events, requests, emissions                                             *)
(***************************************************************************)
\* QHash: value(key, default), insert, remove
Value(h, key, default) == IF key \in DOMAIN h THEN h[key] ELSE default
Insert(h, key, v) == [x \in DOMAIN h \cup {key} |-> IF x = key THEN v ELSE h[x]]
\* variant of Remove that leaves the hash as it is
Remove_Keep(h, key) == h

Remove(h, key) == [x \in DOMAIN h \ {key} |-> h[x]]
EmptyHash == [x \in {} |-> x]

EvStateChanged(s) == [t |-> "stateChanged", s |-> s]
EvConnected == [t |-> "connected"]
EvDisconnected == [t |-> "disconnected"]
EvError == [t |-> "errorOccurred"]
EvMessage(topic, p) == [t |-> "messageReceived", topic |-> topic, p |-> p]

Csc(v) == [k |-> "connectionStateChanged", v |-> v]
Sub(topic) == [k |-> "subscribe", topic |-> topic]
Pub(topic, payload, r) == [k |-> "publish", topic |-> topic, payload |-> payload, r |-> r]

OfKind(s, kind) == SelectSeq(s, LAMBDA e : e.k = kind)

\* the last connectionStateChanged value (as <<v>>, <<>> when none was emitted yet)
\* after a step that emitted o
CscAfter(o, last) ==
  LET c == OfKind(o, "connectionStateChanged")
  IN IF c = <<>> THEN last ELSE <<c[Len(c)].v>>

(***************************************************************************)
(* Z2mAdapter helpers                                                      *)
(***************************************************************************)
\* variant of updateConnectionState that ignores the bridge state
updateConnectionState_MqttOnly(mqtt, bridge) == mqtt

\* updateConnectionState: the value handed to setConnected
updateConnectionState(mqtt, bridge) == mqtt /\ bridge

\* variant of setConnected that emits without comparing with the current flag
setConnected_Always(cur, new) == <<Csc(new)>>

\* setConnected: the emission
setConnected(cur, new) == IF cur = new THEN <<>> ELSE <<Csc(new)>>

\* setConnected: stopReconnectTimer() when the adapter becomes connected
setConnectedTimer(cur, new, active) == IF cur # new /\ new THEN FALSE ELSE active

\* connectToBroker: the worker queue after it
connectToBroker(cl, st, host, q) ==
  IF cl /\ st \notin {"Connected", "Connecting"} /\ host # ""
  THEN Append(q, [op |-> "connectToHost", host |-> host])
  ELSE q

\* disconnectFromBroker: the worker queue after it
disconnectFromBroker(cl, st, q) ==
  IF cl /\ st \in {"Connected", "Connecting"}
  THEN Append(q, [op |-> "disconnectFromHost"])
  ELSE q

\* MqttClient::publish / MqttWorker::publish: -1 without m_mosq, else mosquitto's rc
PublishResults == IF m_mosq THEN {"ok", "failed"} ELSE {"failed"}

\* MqttWorker::publish / subscribe emit errorOccurred when mosquitto refuses
ErrorsOf(results) ==
  IF m_mosq /\ "failed" \in results THEN <<EvError>> ELSE <<>>

\* ensureSubscriptions
ensureSubscriptions(cl, st) ==
  IF cl /\ st = "Connected" THEN <<Sub(<<"#">>)>> ELSE <<>>

(***************************************************************************)
(* Device registry: what bridge/devices reports and what is built from it  *)
(***************************************************************************)
\* a device object of a bridge/devices payload: friendly_name, ieee_address,
\* usable (interview_completed and supported), availability; no last_seen, and
\* its type is not Coordinator
DeviceObj(name, ieee, usable, availability) ==
  [friendly_name |-> name, ieee_address |-> ieee, usable |-> usable,
   availability |-> availability]

DeviceObjs ==
  {DeviceObj(n, i, TRUE, a) : n \in Names, i \in Ieees, a \in {"", "online"}}
    \cup {DeviceObj(n, i, FALSE, "") : n \in Names, i \in Ieees}

\* the exposes every reported device carries: a light with a temperature sensor
Exposes ==
  << [property |-> "state", access |-> 7],
     [property |-> "color", access |-> 7],
     [property |-> "temperature", access |-> 1] >>

\* addChannelFromExpose, kMappings: the channel kind of a property
kMappings(property) ==
  CASE property = "state" -> "PowerOnOff"
    [] property = "color" -> "ColorRGB"
    [] property = "temperature" -> "Temperature"

\* flagsFromAccess: the Writable flag
flagsFromAccess(access) == (access \div kAccessSet) % 2 = 1

Binding(channelId, property, kind, writable, isAvailability) ==
  [channelId |-> channelId, property |-> property, kind |-> kind,
   writable |-> writable, isAvailability |-> isAvailability]

\* addChannelFromExpose: the binding of one expose (no endpoint: channel id = property)
addChannelFromExpose(expose) ==
  Binding(expose.property, expose.property, kMappings(expose.property),
          flagsFromAccess(expose.access), FALSE)

\* the channels of an entry, in the order the model walks bindingsByChannel
ChannelIds == <<"state", "color", "temperature", "connectivity", "device_software_update">>

\* buildDeviceEntry: bindingsByChannel
bindingsByChannel ==
  [c \in {ChannelIds[i] : i \in 1..Len(ChannelIds)} |->
     CASE c = "connectivity" ->
            Binding("connectivity", "availability", "ConnectivityStatus", FALSE, TRUE)
       [] c = "device_software_update" ->
            Binding("device_software_update", "update", "DeviceSoftwareUpdate", FALSE, FALSE)
       [] OTHER ->
            addChannelFromExpose(
              CHOOSE e \in {Exposes[i] : i \in 1..Len(Exposes)} : e.property = c)]

\* buildDeviceEntry: the external id is the IEEE address, or the friendly name
buildDeviceEntry(obj) ==
  [mqttId |-> obj.friendly_name,
   id |-> IF obj.ieee_address # "" THEN obj.ieee_address ELSE obj.friendly_name,
   bindingsByChannel |-> bindingsByChannel]

CmdResult(id, status) == [k |-> "cmdResult", id |-> id, status |-> status]
Csu(device, channel, v) ==
  [k |-> "channelStateUpdated", device |-> device, channel |-> channel, v |-> v]
DeviceUpdated(id, name) == [k |-> "deviceUpdated", device |-> id, name |-> name]
DeviceRemoved(id) == [k |-> "deviceRemoved", device |-> id]
FullSyncCompleted == [k |-> "fullSyncCompleted"]
StartTimer(id, ms) == [k |-> "startTimer", id |-> id, ms |-> ms]

(***************************************************************************)
(* Message handlers of the registry, as functions of the maps they change  *)
(***************************************************************************)
\* handleDeviceStatePayload: the connectivity status of a payload, "" when the
\* payload does not update it (payloads of the model carry no last_seen)
connectivityStatus(payload) ==
  LET state == Value(payload, "availability", "")
  IN IF state = "online" THEN "Connected"
     ELSE IF state = "offline" THEN "Disconnected"
     ELSE IF DOMAIN payload # {} THEN "Connected"
     ELSE ""

\* handleDeviceStatePayload: the typed value of a raw value, "" when outValue is
\* not valid (a colour needs an object, written "{x,y}")
outValue(binding, value) ==
  CASE binding.kind = "PowerOnOff" -> IF value = "ON" THEN "true" ELSE "false"
    [] binding.kind = "Temperature" -> value
    [] binding.kind = "ColorRGB" -> IF value = "{x,y}" THEN "color(x,y)" ELSE ""
    [] OTHER -> ""

\* handleDeviceStatePayload: buffers the payload of an unknown device, else emits
\* the connectivity update and one channelStateUpdated per reported channel
handleDeviceStatePayload(devices, pending, deviceId, payload) ==
  IF deviceId \notin DOMAIN devices
  THEN [pending |-> Insert(pending, deviceId, payload), out |-> <<>>]
  ELSE LET entry == devices[deviceId]
           reported(c) ==
             LET b == entry.bindingsByChannel[c]
             IN /\ ~b.isAvailability
                /\ c # "device_software_update"
                /\ b.property \in DOMAIN payload
                /\ outValue(b, payload[b.property]) # ""
           cs == SelectSeq(ChannelIds, reported)
       IN [pending |-> pending,
           out |-> (IF connectivityStatus(payload) # ""
                    THEN <<Csu(entry.id, "connectivity", connectivityStatus(payload))>>
                    ELSE <<>>)
                   \o [i \in 1..Len(cs) |->
                         Csu(entry.id, cs[i],
                             outValue(entry.bindingsByChannel[cs[i]],
                                      payload[entry.bindingsByChannel[cs[i]].property]))]]

\* AdapterInterface::adapterMetaUpdated(metaPatch)
AdapterMetaPatch(patch) == [k |-> "adapterMetaUpdated", meta |-> patch]

\* handleBridgeInfoPayload: the payload is kept while no coordinator entry is in
\* the registry, and is otherwise written into the coordinator's device, which
\* is re-emitted together with the adapter meta patch. The result holds the
\* registry, the buffer and the emissions.
handleBridgeInfoPayload(devices, byExternal, coordinatorId, pendingInfo, connected, payload) ==
  LET coordinatorMqttId == Value(byExternal, coordinatorId, coordinatorId)
  IN IF coordinatorId = "" \/ coordinatorMqttId \notin DOMAIN devices
     THEN [devices |-> devices, info |-> payload, out |-> <<>>]
     ELSE LET entry == devices[coordinatorMqttId]
              device == [deviceClass |-> "Gateway", bridge_info |-> payload] @@ entry
          IN [devices |-> Insert(devices, coordinatorMqttId, device),
              info |-> pendingInfo,
              out |-> <<DeviceUpdated(device.id, device.mqttId),
                        AdapterMetaPatch("bridge_info" :> payload)>>
                      \o (IF connected
                          THEN <<Csu(coordinatorId, "connectivity", "Connected")>>
                          ELSE <<>>)]

\* handleBridgeDevicesPayload, the object is of type Coordinator: the buffer is
\* applied and emptied without looking at what the application did
coordinatorStep_KeepBuffer(r, obj, id, s) ==
  LET held == [coordinatorId |-> r.coordinatorId, info |-> r.info,
               connected |-> r.connected]
  IN IF ~("type" \in DOMAIN obj /\ obj.type = "Coordinator") THEN held @@ s
     ELSE IF r.info = "" THEN [held EXCEPT !.coordinatorId = id] @@ s
     ELSE LET applied == handleBridgeInfoPayload(s.devices, s.byExternal, id, r.info,
                                                 r.connected, r.info)
          IN [held EXCEPT !.coordinatorId = id]
             @@ [s EXCEPT !.devices = applied.devices, !.out = @ \o applied.out]

coordinatorStep(r, obj, id, s) ==
  LET held == [coordinatorId |-> r.coordinatorId, info |-> r.info,
               connected |-> r.connected]
  IN IF ~("type" \in DOMAIN obj /\ obj.type = "Coordinator") THEN held @@ s
     ELSE IF r.info = "" THEN [held EXCEPT !.coordinatorId = id] @@ s
     ELSE LET applied == handleBridgeInfoPayload(s.devices, s.byExternal, id, r.info,
                                                 r.connected, r.info)
          IN [held EXCEPT !.coordinatorId = id, !.info = ""]
             @@ [s EXCEPT !.devices = applied.devices, !.out = @ \o applied.out]

\* handleBridgeDevicesPayload: one device object of the array; r holds the maps,
\* the emissions so far, the deferred connectivity defaults and the names seen
DeviceStep(r, obj) ==
  LET deviceId == obj.friendly_name
      ieeeAddress == obj.ieee_address
  IN IF ~obj.usable
     THEN LET existingMqttId == IF ieeeAddress = "" THEN deviceId
                                ELSE Value(r.byExternal, ieeeAddress, deviceId)
          IN IF existingMqttId \in DOMAIN r.devices
             THEN [r EXCEPT !.out = Append(@, DeviceRemoved(r.devices[existingMqttId].id)),
                            !.byExternal = Remove(@, r.devices[existingMqttId].id),
                            !.devices = Remove(@, existingMqttId),
                            !.pending = Remove(@, existingMqttId)]
             ELSE [r EXCEPT !.pending = Remove(@, existingMqttId)]
     ELSE LET previousMqttId == IF ieeeAddress = "" THEN ""
                                ELSE Value(r.byExternal, ieeeAddress, "")
              renameDetected == previousMqttId # "" /\ previousMqttId # deviceId
              known == previousMqttId # "" /\ previousMqttId \in DOMAIN r.devices
              entry == IF known THEN [r.devices[previousMqttId] EXCEPT !.mqttId = deviceId]
                       ELSE buildDeviceEntry(obj)
              devices1 == IF known /\ renameDetected THEN Remove(r.devices, previousMqttId)
                          ELSE r.devices
              pending1 == IF renameDetected /\ previousMqttId \in DOMAIN r.pending
                          THEN Remove(Insert(r.pending, deviceId, r.pending[previousMqttId]),
                                      previousMqttId)
                          ELSE r.pending
              renamed == /\ ieeeAddress # ""
                         /\ ieeeAddress \in DOMAIN r.rename
                         /\ r.rename[ieeeAddress].targetName = entry.mqttId
              devices2 == Insert(devices1, entry.mqttId, entry)
              flushed == IF entry.mqttId \in DOMAIN pending1
                         THEN handleDeviceStatePayload(devices2, Remove(pending1, entry.mqttId),
                                                       entry.mqttId, pending1[entry.mqttId])
                         ELSE [pending |-> pending1, out |-> <<>>]
          IN coordinatorStep(r, obj, entry.id,
             [devices |-> devices2,
              byExternal |-> Insert(r.byExternal, entry.id, entry.mqttId),
              rename |-> IF renamed THEN Remove(r.rename, ieeeAddress) ELSE r.rename,
              pending |-> flushed.pending,
              out |-> r.out
                      \o (IF renamed
                          THEN <<CmdResult(r.rename[ieeeAddress].cmdId, "Success")>>
                          ELSE <<>>)
                      \o <<DeviceUpdated(entry.id, entry.mqttId)>>
                      \o flushed.out,
              deferred |-> Append(r.deferred,
                                  [externalId |-> entry.id, channelId |-> "connectivity",
                                   availability |-> obj.availability]),
              seen |-> r.seen \cup {deviceId}])

RECURSIVE DeviceLoop(_, _)
DeviceLoop(r, objs) ==
  IF objs = <<>> THEN r ELSE DeviceLoop(DeviceStep(r, Head(objs)), Tail(objs))

\* handleBridgeDevicesPayload: a full snapshot drops the entries it did not name
RECURSIVE RemoveUnseen(_, _)
RemoveUnseen(r, keys) ==
  IF keys = <<>> THEN r
  ELSE LET key == Head(keys)
       IN IF key \in DOMAIN r.devices /\ key \notin r.seen
          THEN RemoveUnseen([r EXCEPT !.out = Append(@, DeviceRemoved(r.devices[key].id)),
                                      !.byExternal = Remove(@, r.devices[key].id),
                                      !.devices = Remove(@, key)],
                            Tail(keys))
          ELSE RemoveUnseen(r, Tail(keys))

\* the order in which the model walks the keys of m_devices
NameOrder == <<"Coordinator", "desk", "lamp">>

handleBridgeDevicesPayload(r, objs, fullSnapshot, pendingFullSync) ==
  LET looped == DeviceLoop(r, objs)
      swept == IF fullSnapshot THEN RemoveUnseen(looped, NameOrder) ELSE looped
  IN [swept EXCEPT !.out = IF pendingFullSync THEN Append(@, FullSyncCompleted) ELSE @]

\* whether connectionStateChanged(true) was emitted, before or by a step that
\* emitted o
SessionCscAfter(o, before) ==
  before \/ \E i \in 1..Len(o) : o[i] = Csc(TRUE)

\* the devices the events of a step are about
DevicesOf(o) ==
  {o[i].device : i \in {j \in 1..Len(o) :
                          o[j].k \in {"channelStateUpdated", "deviceUpdated", "deviceRemoved"}}}

\* whether the oldest posted connectivity default is overtaken after a step: its
\* own lambda ends it, a handled MQTT message that emits for its device sets it
OvertakenAfter(name, o) ==
  IF name.name = "availabilityDefault" THEN FALSE
  ELSE IF /\ deferred # <<>>
          /\ name.name \in {"bridge/devices", "deviceState", "availability",
                             "bridge/response/device/rename"}
          /\ Head(deferred).externalId \in DevicesOf(o)
       THEN TRUE
       ELSE overtaken

\* the device ids whose last registry event is deviceRemoved once the events
\* o are emitted in their order
RECURSIVE RemovedAfter(_, _)
RemovedAfter(o, removed) ==
  IF o = <<>> THEN removed
  ELSE LET e == Head(o)
       IN RemovedAfter(Tail(o),
                       IF e.k = "deviceRemoved" THEN removed \cup {e.device}
                       ELSE IF e.k = "deviceUpdated" THEN removed \ {e.device}
                       ELSE removed)

\* history kept with every step
Emit(name, o) ==
  /\ act' = name
  /\ out' = o
  /\ prevConnected' = m_connected
  /\ lastCsc' = CscAfter(out, lastCsc)
  /\ sessionCsc' = IF name.name = "connected" THEN SessionCscAfter(o, FALSE)
                   ELSE SessionCscAfter(o, sessionCsc)
  /\ overtaken' = OvertakenAfter(name, o)
  /\ removedIds' = RemovedAfter(o, removedIds)

\* a step of a handler that leaves the coordinator id and the buffered
\* bridge/info payload alone
Step(name, o) ==
  /\ Emit(name, o)
  /\ UNCHANGED <<m_coordinatorId, m_pendingBridgeInfo>>

(***************************************************************************)
(* Initial state: a constructed adapter, not started                       *)
(***************************************************************************)
Init ==
  /\ ip \in Hosts
  /\ m_client = FALSE
  /\ clientState = "Disconnected"
  /\ m_connected = FALSE
  /\ m_mqttConnected = FALSE
  /\ m_bridgeOnline = TRUE
  /\ m_lastSeenRequested = FALSE
  /\ m_pendingFullSync = FALSE
  /\ reconnectActive = FALSE
  /\ wreq = <<>>
  /\ wstate = "Disconnected"
  /\ m_mosq = FALSE
  /\ sockOpen = FALSE
  /\ evq = <<>>
  /\ crashed = FALSE
  /\ act = [name |-> "init"]
  /\ out = <<>>
  /\ prevConnected = FALSE
  /\ lastCsc = <<>>
  /\ connFail = FALSE
  /\ m_devices = EmptyHash
  /\ m_mqttByExternal = EmptyHash
  /\ m_pendingRename = EmptyHash
  /\ m_pendingStatePayloads = EmptyHash
  /\ m_postSetRefreshTimers = EmptyHash
  /\ renameTimers = <<>>
  /\ deferred = <<>>
  /\ burst = EmptyHash
  /\ sessionCsc = FALSE
  /\ overtaken = FALSE
  /\ m_coordinatorId = ""
  /\ m_pendingBridgeInfo = ""
  /\ removedIds = {}
  /\ m_hostname = ""
  /\ mosqDisconnect = FALSE

(***************************************************************************)
(* Host calls                                                              *)
(***************************************************************************)
start ==
  /\ ~crashed
  /\ LET st == IF m_client THEN clientState ELSE "Disconnected"
         q == connectToBroker(TRUE, st, ip, wreq)
     IN /\ Len(q) <= MaxReq
        /\ wreq' = q
        /\ clientState' = st
        /\ connFail' = IF q # wreq THEN FALSE ELSE connFail
  /\ m_client' = TRUE
  /\ m_pendingFullSync' = FALSE
  /\ Step([name |-> "start", ok |-> TRUE], <<>>)
  /\ UNCHANGED <<registryVars, timerVars, ip, m_connected, m_mqttConnected, m_bridgeOnline, m_lastSeenRequested,
                 reconnectActive, workerVars, evq, crashed>>

\* stop: the client is released with deleteLater; the signals already queued to the
\* adapter thread are still delivered, those of the dying client's own stateChanged
\* lambda no longer reach the adapter, and its worker is shut down.
stop ==
  /\ ~crashed
  /\ LET c == updateConnectionState(FALSE, m_bridgeOnline)
     IN /\ m_connected' = c
        /\ Step([name |-> "stop", again |-> act.name = "stop"], setConnected(m_connected, c))
  /\ reconnectActive' = FALSE
  /\ m_client' = FALSE
  /\ clientState' = "Disconnected"
  /\ m_mqttConnected' = FALSE
  /\ wreq' = <<>>
  /\ wstate' = "Disconnected"
  /\ m_mosq' = FALSE
  /\ sockOpen' = FALSE
  /\ m_hostname' = ""
  /\ mosqDisconnect' = FALSE
  /\ connFail' = FALSE
  /\ evq' = SelectSeq(evq, LAMBDA e : e.t # "stateChanged")
  /\ m_postSetRefreshTimers' = EmptyHash
  /\ burst' = EmptyHash
  /\ UNCHANGED <<ip, m_bridgeOnline, m_lastSeenRequested, m_pendingFullSync, crashed,
                 registryVars, renameTimers>>

\* Z2mAdapter::adapterConfigUpdated, the host having set adapter().ip to one
\* of hosts
configUpdated(hosts) ==
  /\ ~crashed
  /\ \E h \in hosts :
       LET q == connectToBroker(m_client, clientState, h,
                                disconnectFromBroker(m_client, clientState, wreq))
       IN /\ Len(q) <= MaxReq
          /\ wreq' = q
          /\ ip' = h
          /\ Step([name |-> "adapterConfigUpdated", ip |-> h], <<>>)
  /\ UNCHANGED <<registryVars, timerVars, m_client, clientState, adapterVars, workerVars, evq, crashed, connFail>>

adapterConfigUpdated == configUpdated(Hosts)

(***************************************************************************)
(* Timer callbacks                                                         *)
(***************************************************************************)
reconnectTimeout ==
  /\ ~crashed
  /\ reconnectActive
  /\ LET q == connectToBroker(m_client, clientState, ip, wreq)
     IN /\ Len(q) <= MaxReq
        /\ wreq' = q
        /\ connFail' = IF q # wreq THEN FALSE ELSE connFail
  /\ Step([name |-> "reconnectTimeout"], <<>>)
  /\ UNCHANGED <<registryVars, timerVars, ip, m_client, clientState, adapterVars, workerVars, evq, crashed>>

(***************************************************************************)
(* Handlers of the signals queued to the adapter thread                    *)
(***************************************************************************)
\* MqttClient's stateChanged lambda: setState
onStateChanged ==
  /\ ~crashed
  /\ evq # <<>> /\ Head(evq).t = "stateChanged"
  /\ clientState' = Head(evq).s
  /\ evq' = Tail(evq)
  /\ Step([name |-> "stateChanged", s |-> Head(evq).s], <<>>)
  /\ UNCHANGED <<registryVars, timerVars, ip, m_client, adapterVars, wreq, workerVars, crashed, connFail>>

\* the connected lambda of start; m_client->publish on a released client is a null
\* dereference: the process dies, or the call happens to do nothing
onConnected ==
  /\ ~crashed
  /\ evq # <<>> /\ Head(evq).t = "connected"
  /\ m_client => wreq = <<>>
  /\ LET c == updateConnectionState(TRUE, m_bridgeOnline)
         o == setConnected(m_connected, c) \o ensureSubscriptions(m_client, clientState)
     IN /\ m_mqttConnected' = TRUE
        /\ m_connected' = c
        /\ reconnectActive' = setConnectedTimer(m_connected, c, reconnectActive)
        /\ IF m_client
           THEN \E r \in PublishResults :
                  /\ Step([name |-> "connected"],
                          o \o <<Pub(<<"bridge", "request", "info">>, EmptyHash, r)>>)
                  /\ evq' = Tail(evq) \o ErrorsOf({r})
                  /\ crashed' = FALSE
           ELSE /\ Step([name |-> "connected"], o)
                /\ evq' = Tail(evq)
                /\ crashed' \in BOOLEAN
  /\ UNCHANGED <<registryVars, timerVars, ip, m_client, clientState, m_bridgeOnline, m_lastSeenRequested,
                 m_pendingFullSync, wreq, workerVars, connFail>>

\* the disconnected lambda of start
onDisconnected ==
  /\ ~crashed
  /\ evq # <<>> /\ Head(evq).t = "disconnected"
  /\ LET c == updateConnectionState(FALSE, m_bridgeOnline)
     IN /\ m_mqttConnected' = FALSE
        /\ m_connected' = c
        /\ Step([name |-> "disconnected"], setConnected(m_connected, c))
  /\ reconnectActive' = TRUE
  /\ evq' = Tail(evq)
  /\ UNCHANGED <<registryVars, timerVars, ip, m_client, clientState, m_bridgeOnline, m_lastSeenRequested,
                 m_pendingFullSync, wreq, workerVars, crashed, connFail>>

\* the errorOccurred lambda of start: m_client->state() on a released client
onErrorOccurred ==
  /\ ~crashed
  /\ evq # <<>> /\ Head(evq).t = "errorOccurred"
  /\ evq' = Tail(evq)
  /\ crashed' \in (IF m_client THEN {FALSE} ELSE BOOLEAN)
  /\ Step([name |-> "errorOccurred"], <<>>)
  /\ UNCHANGED <<registryVars, timerVars, ip, m_client, clientState, adapterVars, wreq, workerVars, connFail>>

\* variant of onBridgeState that requests the option on every online message
onBridgeState_Always ==
  /\ ~crashed
  /\ evq # <<>> /\ Head(evq).t = "messageReceived" /\ Head(evq).topic = <<"bridge", "state">>
  /\ LET p == Head(evq).p
         b == (p = "online")
         c == updateConnectionState(m_mqttConnected, b)
         o == setConnected(m_connected, c)
         a == [name |-> "bridge/state", p |-> p]
     IN /\ m_bridgeOnline' = b
        /\ m_connected' = c
        /\ reconnectActive' = setConnectedTimer(m_connected, c, reconnectActive)
        /\ IF b
           THEN IF m_client
                THEN /\ wreq = <<>>
                     /\ \E r \in PublishResults :
                          /\ Step(a, o \o <<Pub(<<"bridge", "request", "options">>,
                                              "last_seen" :> "epoch", r)>>)
                          /\ evq' = Tail(evq) \o ErrorsOf({r})
                     /\ m_lastSeenRequested' = TRUE
                     /\ crashed' = FALSE
                ELSE /\ Step(a, o)
                     /\ evq' = Tail(evq)
                     /\ crashed' \in BOOLEAN
                     /\ m_lastSeenRequested' = ~crashed'
           ELSE /\ Step(a, o)
                /\ evq' = Tail(evq)
                /\ UNCHANGED <<m_lastSeenRequested, crashed>>
  /\ UNCHANGED <<registryVars, timerVars, ip, m_client, clientState, m_mqttConnected, m_pendingFullSync, wreq,
                 workerVars, connFail>>

\* handleMqttMessage, topic <baseTopic>/bridge/state
onBridgeState ==
  /\ ~crashed
  /\ evq # <<>> /\ Head(evq).t = "messageReceived" /\ Head(evq).topic = <<"bridge", "state">>
  /\ LET p == Head(evq).p
         b == (p = "online")
         c == updateConnectionState(m_mqttConnected, b)
         o == setConnected(m_connected, c)
         a == [name |-> "bridge/state", p |-> p]
     IN /\ m_bridgeOnline' = b
        /\ m_connected' = c
        /\ reconnectActive' = setConnectedTimer(m_connected, c, reconnectActive)
        /\ IF b /\ ~m_lastSeenRequested
           THEN IF m_client
                THEN /\ wreq = <<>>
                     /\ \E r \in PublishResults :
                          /\ Step(a, o \o <<Pub(<<"bridge", "request", "options">>,
                                              "last_seen" :> "epoch", r)>>)
                          /\ evq' = Tail(evq) \o ErrorsOf({r})
                     /\ m_lastSeenRequested' = TRUE
                     /\ crashed' = FALSE
                ELSE /\ Step(a, o)
                     /\ evq' = Tail(evq)
                     /\ crashed' \in BOOLEAN
                     /\ m_lastSeenRequested' = ~crashed'
           ELSE /\ Step(a, o)
                /\ evq' = Tail(evq)
                /\ UNCHANGED <<m_lastSeenRequested, crashed>>
  /\ UNCHANGED <<registryVars, timerVars, ip, m_client, clientState, m_mqttConnected, m_pendingFullSync, wreq,
                 workerVars, connFail>>

(***************************************************************************)
(* Handlers of the registry messages (handleMqttMessage)                   *)
(***************************************************************************)
\* handleMqttMessage, topics <baseTopic>/bridge/devices (a full snapshot) and
\* <baseTopic>/bridge/response/devices
onBridgeDevices ==
  /\ ~crashed
  /\ evq # <<>> /\ Head(evq).t = "messageReceived"
  /\ Head(evq).topic \in {<<"bridge", "devices">>, <<"bridge", "response", "devices">>}
  /\ LET objs == Head(evq).p
         fullSnapshot == Head(evq).topic = <<"bridge", "devices">>
         r == handleBridgeDevicesPayload(
                [devices |-> m_devices, byExternal |-> m_mqttByExternal,
                 rename |-> m_pendingRename, pending |-> m_pendingStatePayloads,
                 out |-> <<>>, deferred |-> deferred, seen |-> {},
                 coordinatorId |-> m_coordinatorId, info |-> m_pendingBridgeInfo,
                 connected |-> m_mqttConnected /\ m_bridgeOnline],
                objs, fullSnapshot, m_pendingFullSync)
         a == [name |-> "bridge/devices", fullSnapshot |-> fullSnapshot, objs |-> objs]
     IN IF objs = <<>>
        THEN \* "payload has no device array": the handler returns
             /\ Step(a, <<>>)
             /\ UNCHANGED <<registryVars, m_pendingFullSync>>
        ELSE /\ Len(r.deferred) < MaxDeferred + Len(objs)
             /\ m_devices' = r.devices
             /\ m_mqttByExternal' = r.byExternal
             /\ m_pendingRename' = r.rename
             /\ m_pendingStatePayloads' = r.pending
             /\ deferred' = r.deferred
             /\ m_pendingFullSync' = FALSE
             /\ m_coordinatorId' = r.coordinatorId
             /\ m_pendingBridgeInfo' = r.info
             /\ Emit(a, r.out)
  /\ evq' = Tail(evq)
  /\ UNCHANGED <<ip, m_client, clientState, m_connected, m_mqttConnected, m_bridgeOnline,
                 m_lastSeenRequested, reconnectActive, wreq, workerVars, crashed, connFail,
                 timerVars>>

\* handleMqttMessage, topic <baseTopic>/<friendly name>: a state payload
onDeviceState ==
  /\ ~crashed
  /\ evq # <<>> /\ Head(evq).t = "messageReceived"
  /\ Len(Head(evq).topic) = 1
  /\ LET deviceId == Head(evq).topic[1]
         r == handleDeviceStatePayload(m_devices, m_pendingStatePayloads, deviceId,
                                       Head(evq).p)
     IN /\ m_pendingStatePayloads' = r.pending
        /\ Step([name |-> "deviceState", mqttId |-> deviceId, payload |-> Head(evq).p],
                r.out)
  /\ evq' = Tail(evq)
  /\ UNCHANGED <<connVars, m_devices, m_mqttByExternal, m_pendingRename, deferred,
                 timerVars>>

\* the text of an availability payload: the "state" member of a JSON object,
\* the trimmed payload itself when it is no JSON object
availabilityText(p) ==
  IF p = "{\"state\":\"online\"}" THEN "online"
  ELSE IF p = "{\"state\":\"offline\"}" THEN "offline"
  ELSE p

\* handleAvailabilityPayload: the connectivity of a known device
handleAvailabilityPayload(devices, deviceId, payload) ==
  IF deviceId \notin DOMAIN devices THEN <<>>
  ELSE <<Csu(devices[deviceId].id, "connectivity",
             IF payload = "online" THEN "Connected"
             ELSE IF payload = "offline" THEN "Disconnected"
             ELSE "Unknown")>>

\* handleMqttMessage, topic <baseTopic>/<friendly name>/availability
onAvailability ==
  /\ ~crashed
  /\ evq # <<>> /\ Head(evq).t = "messageReceived"
  /\ Len(Head(evq).topic) = 2 /\ Head(evq).topic[2] = "availability"
  /\ Step([name |-> "availability", mqttId |-> Head(evq).topic[1], payload |-> Head(evq).p],
          handleAvailabilityPayload(m_devices, Head(evq).topic[1],
                                    availabilityText(Head(evq).p)))
  /\ evq' = Tail(evq)
  /\ UNCHANGED <<connVars, registryVars, timerVars>>

\* the order in which the model walks the keys of m_pendingRename
RenameIdOrder == <<"0xA", "lamp">>

\* bridge/response/device/rename with status ok: every pending rename the response
\* matches succeeds and the device's connectivity is re-emitted as Connected
RECURSIVE renameResponse(_, _, _)
renameResponse(r, keys, resp) ==
  IF keys = <<>> THEN r
  ELSE LET ieee == Head(keys)
           currentMqtt == Value(m_mqttByExternal, ieee, "")
           mqttId == IF resp.to # "" THEN resp.to ELSE currentMqtt
       IN IF /\ ieee \in DOMAIN r.rename
             /\ \/ (resp.to # "" /\ r.rename[ieee].targetName = resp.to)
                \/ (resp.from # "" /\ currentMqtt = resp.from)
          THEN renameResponse(
                 [rename |-> Remove(r.rename, ieee),
                  out |-> r.out \o <<CmdResult(r.rename[ieee].cmdId, "Success")>>
                          \o (IF mqttId \in DOMAIN m_devices
                              THEN <<Csu(m_devices[mqttId].id, "connectivity", "Connected")>>
                              ELSE <<>>)],
                 Tail(keys), resp)
          ELSE renameResponse(r, Tail(keys), resp)

\* handleMqttMessage, topic <baseTopic>/bridge/response/device/rename
onRenameResponse ==
  /\ ~crashed
  /\ evq # <<>> /\ Head(evq).t = "messageReceived"
  /\ Head(evq).topic = <<"bridge", "response", "device", "rename">>
  /\ LET resp == Head(evq).p
         r == IF resp.status = "ok"
              THEN renameResponse([rename |-> m_pendingRename, out |-> <<>>],
                                  RenameIdOrder, resp)
              ELSE [rename |-> m_pendingRename, out |-> <<>>]
     IN /\ m_pendingRename' = r.rename
        /\ Step([name |-> "bridge/response/device/rename", resp |-> resp], r.out)
  /\ evq' = Tail(evq)
  /\ UNCHANGED <<connVars, m_devices, m_mqttByExternal, m_pendingStatePayloads, deferred,
                 timerVars>>

\* handleMqttMessage, topic <baseTopic>/bridge/response/device/get: the answer
\* settles the rename pending for its ieee_address
onDeviceGetResponse ==
  /\ ~crashed
  /\ evq # <<>> /\ Head(evq).t = "messageReceived"
  /\ Head(evq).topic = <<"bridge", "response", "device", "get">>
  /\ LET deviceObj == Head(evq).p
         ieee == deviceObj.ieee_address
         friendly == deviceObj.friendly_name
         a == [name |-> "bridge/response/device/get", deviceObj |-> deviceObj]
     IN IF ieee # "" /\ ieee \in DOMAIN m_pendingRename
        THEN /\ m_pendingRename' = Remove(m_pendingRename, ieee)
             /\ Step(a, <<CmdResult(m_pendingRename[ieee].cmdId,
                                    IF friendly # "" /\ friendly = m_pendingRename[ieee].targetName
                                    THEN "Success" ELSE "Failure")>>)
        ELSE /\ Step(a, <<>>)
             /\ UNCHANGED m_pendingRename
  /\ evq' = Tail(evq)
  /\ UNCHANGED <<connVars, m_devices, m_mqttByExternal, m_pendingStatePayloads, deferred,
                 timerVars>>

(***************************************************************************)
(* Commands of the host                                                    *)
(***************************************************************************)
\* buildCommandPayload: the set payload of a value, ok = FALSE when the value
\* cannot be encoded for the channel
buildCommandPayload(binding, value) ==
  CASE binding.kind = "PowerOnOff" ->
         [ok |-> TRUE,
          payload |-> (binding.property :>
                         IF value.type = "Bool" /\ value.v = "true" THEN "ON" ELSE "OFF")]
    [] binding.kind = "ColorRGB" ->
         IF value.type = "Color"
         THEN [ok |-> TRUE, payload |-> (binding.property :> value.v)]
         ELSE [ok |-> FALSE, payload |-> EmptyHash]
    [] binding.kind = "Temperature" ->
         [ok |-> TRUE, payload |-> (binding.property :> value.v)]
    [] OTHER -> [ok |-> FALSE, payload |-> EmptyHash]

\* variants of notConnected that look at the flag only, or at the client only
notConnected_FlagOnly == ~m_connected

notConnected_ClientOnly == ~m_client \/ clientState # "Connected"

\* the check of updateChannelState and updateDeviceName before they publish
notConnected == ~m_connected \/ ~m_client \/ clientState # "Connected"

\* variant of published that echoes the commanded value as a state update
published_Echo(deviceExternalId, channelExternalId, value, mqttId, p, cmdId) ==
  <<p, Csu(deviceExternalId, channelExternalId, value.v),
    StartTimer(mqttId, kPostSetRefreshMs), CmdResult(cmdId, "Success")>>

\* updateChannelState once the set payload p is published: the refresh timer of the
\* device is (re)started and the command succeeds
published(deviceExternalId, channelExternalId, value, mqttId, p, cmdId) ==
  <<p, StartTimer(mqttId, kPostSetRefreshMs), CmdResult(cmdId, "Success")>>

updateChannelState ==
  /\ ~crashed
  /\ \E deviceExternalId \in DeviceIds, channelExternalId \in ChannelInputs,
        value \in Values, cmdId \in CmdIds :
       LET mqttId == Value(m_mqttByExternal, deviceExternalId, deviceExternalId)
           a == [name |-> "updateChannelState", device |-> deviceExternalId,
                 channel |-> channelExternalId, value |-> value, cmdId |-> cmdId]
           reject(status) ==
             /\ Step(a, <<CmdResult(cmdId, status)>>)
             /\ UNCHANGED <<evq, m_postSetRefreshTimers, burst>>
       IN IF mqttId \notin DOMAIN m_devices
          THEN reject("NotSupported")
          ELSE IF channelExternalId \notin DOMAIN m_devices[mqttId].bindingsByChannel
          THEN reject("NotSupported")
          ELSE LET binding == m_devices[mqttId].bindingsByChannel[channelExternalId]
                   built == buildCommandPayload(binding, value)
               IN IF ~binding.writable
                  THEN reject("NotSupported")
                  ELSE IF notConnected
                  THEN reject("TemporarilyOffline")
                  ELSE IF ~built.ok
                  THEN reject("InvalidArgument")
                  ELSE /\ wreq = <<>>
                       /\ \E r \in PublishResults :
                            LET p == Pub(<<mqttId, "set">>, built.payload, r)
                            IN IF r # "ok"
                               THEN /\ Len(evq) + Len(ErrorsOf({r})) <= MaxQueue
                                    /\ evq' = evq \o ErrorsOf({r})
                                    /\ Step(a, <<p, CmdResult(cmdId, "Failure")>>)
                                    /\ UNCHANGED <<m_postSetRefreshTimers, burst>>
                               ELSE /\ Value(burst, mqttId, 0) < MaxBurst
                                    /\ m_postSetRefreshTimers' =
                                         Insert(m_postSetRefreshTimers, mqttId, TRUE)
                                    /\ burst' = Insert(burst, mqttId, Value(burst, mqttId, 0) + 1)
                                    /\ Step(a, published(deviceExternalId, channelExternalId,
                                                          value, mqttId, p, cmdId))
                                    /\ UNCHANGED evq
  /\ UNCHANGED <<connVars, registryVars, renameTimers>>

\* QString::trimmed of the names the host passes
trimmed(name) == IF name = " " THEN "" ELSE name

\* variant of renameRejected without the pending-rename check
renameRejected_NoPending(deviceId, name, mqttId) ==
  IF trimmed(name) = "" THEN "InvalidArgument"
  ELSE IF mqttId = "" THEN "NotSupported"
  ELSE IF notConnected THEN "TemporarilyOffline"
  ELSE ""

\* updateDeviceName: the status of the first check that rejects the rename, "" when
\* the rename request is published
renameRejected(deviceId, name, mqttId) ==
  IF trimmed(name) = "" THEN "InvalidArgument"
  ELSE IF mqttId = "" THEN "NotSupported"
  ELSE IF deviceId \in DOMAIN m_pendingRename THEN "TemporarilyOffline"
  ELSE IF notConnected THEN "TemporarilyOffline"
  ELSE ""

updateDeviceName ==
  /\ ~crashed
  /\ \E deviceId \in RenameIds, name \in RenameNames, cmdId \in CmdIds :
       LET mqttId == Value(m_mqttByExternal, deviceId, deviceId)
           a == [name |-> "updateDeviceName", device |-> deviceId, to |-> name,
                 cmdId |-> cmdId]
       IN IF renameRejected(deviceId, name, mqttId) # ""
          THEN /\ Step(a, <<CmdResult(cmdId, renameRejected(deviceId, name, mqttId))>>)
               /\ UNCHANGED <<evq, m_pendingRename, renameTimers>>
          ELSE /\ wreq = <<>>
               /\ \E r \in PublishResults :
                    LET p == Pub(<<"bridge", "request", "device", "rename">>,
                                 ("from" :> mqttId) @@ ("to" :> trimmed(name)), r)
                    IN IF r # "ok"
                       THEN /\ Len(evq) + Len(ErrorsOf({r})) <= MaxQueue
                            /\ evq' = evq \o ErrorsOf({r})
                            /\ Step(a, <<p, CmdResult(cmdId, "Failure")>>)
                            /\ UNCHANGED <<m_pendingRename, renameTimers>>
                       ELSE /\ Len(renameTimers) < MaxRenameTimers
                            /\ m_pendingRename' =
                                 Insert(m_pendingRename, deviceId,
                                        [cmdId |-> cmdId, targetName |-> trimmed(name)])
                            /\ renameTimers' = Append(renameTimers,
                                                      [device |-> deviceId, cmdId |-> cmdId])
                            /\ Step(a, <<p, StartTimer(deviceId, kRenameTimeoutMs)>>)
                            /\ UNCHANGED evq
  /\ UNCHANGED <<connVars, m_devices, m_mqttByExternal, m_pendingStatePayloads, deferred,
                 m_postSetRefreshTimers, burst>>

\* requestFullSync: the device_updated events of the entries of the registry
RECURSIVE knownDevices(_, _)
knownDevices(devices, keys) ==
  IF keys = <<>> THEN <<>>
  ELSE (IF Head(keys) \in DOMAIN devices
        THEN <<DeviceUpdated(devices[Head(keys)].id, devices[Head(keys)].mqttId)>>
        ELSE <<>>) \o knownDevices(devices, Tail(keys))

\* requestFullSync: the request is outstanding, the device list is requested from
\* the bridge when the client is connected, and the known devices are re-emitted
requestFullSync ==
  /\ ~crashed
  /\ m_pendingFullSync' = TRUE
  /\ LET a == [name |-> "requestFullSync"]
     IN IF m_client /\ clientState = "Connected"
        THEN /\ wreq = <<>>
             /\ \E r \in PublishResults :
                  /\ Len(evq) + Len(ErrorsOf({r})) <= MaxQueue
                  /\ evq' = evq \o ErrorsOf({r})
                  /\ Step(a, <<Pub(<<"bridge", "request", "devices">>, EmptyHash, r)>>
                              \o knownDevices(m_devices, NameOrder))
        ELSE /\ Step(a, knownDevices(m_devices, NameOrder))
             /\ UNCHANGED evq
  /\ UNCHANGED <<ip, m_client, clientState, m_connected, m_mqttConnected, m_bridgeOnline,
                 m_lastSeenRequested, reconnectActive, wreq, workerVars, crashed, connFail,
                 registryVars, timerVars>>

(***************************************************************************)
(* Timer callbacks of the commands                                         *)
(***************************************************************************)
\* the timeout lambda of a post-set refresh timer (single shot)
\* variant of postSetRefresh that publishes whatever the client state is
postSetRefresh_Always(cl, st, mqttId, r) == <<Pub(<<mqttId, "get">>, EmptyHash, r)>>

\* the timeout lambda of the post-set refresh timer: what it publishes
postSetRefresh(cl, st, mqttId, r) ==
  IF ~cl \/ st # "Connected" THEN <<>> ELSE <<Pub(<<mqttId, "get">>, EmptyHash, r)>>

postSetRefreshTimeout ==
  /\ ~crashed
  /\ \E mqttId \in DOMAIN m_postSetRefreshTimers :
       /\ m_postSetRefreshTimers[mqttId]
       /\ m_postSetRefreshTimers' = [m_postSetRefreshTimers EXCEPT ![mqttId] = FALSE]
       /\ burst' = [burst EXCEPT ![mqttId] = 0]
       /\ \E r \in PublishResults :
            LET a == [name |-> "postSetRefreshTimeout", mqttId |-> mqttId,
                      burst |-> burst[mqttId]]
                o == postSetRefresh(m_client, clientState, mqttId, r)
            IN IF o = <<>>
               THEN /\ Step(a, o)
                    /\ UNCHANGED evq
               ELSE /\ wreq = <<>>
                    /\ Len(evq) + Len(ErrorsOf({r})) <= MaxQueue
                    /\ evq' = evq \o ErrorsOf({r})
                    /\ Step(a, o)
  /\ UNCHANGED <<connVars, registryVars, renameTimers>>

\* the singleShot lambda of updateDeviceName: fails the rename pending for the id
renameTimeout ==
  /\ ~crashed
  /\ renameTimers # <<>>
  /\ renameTimers' = Tail(renameTimers)
  /\ LET deviceId == Head(renameTimers).device
         a == [name |-> "renameTimeout", device |-> deviceId,
               armedFor |-> Head(renameTimers).cmdId]
     IN IF deviceId \notin DOMAIN m_pendingRename
        THEN /\ Step(a, <<>>)
             /\ UNCHANGED m_pendingRename
        ELSE /\ Step(a, <<CmdResult(m_pendingRename[deviceId].cmdId, "Failure")>>)
             /\ m_pendingRename' = Remove(m_pendingRename, deviceId)
  /\ UNCHANGED <<connVars, evq, m_devices, m_mqttByExternal, m_pendingStatePayloads,
                 deferred, m_postSetRefreshTimers, burst>>

\* the singleShot(0) lambda of handleBridgeDevicesPayload: the connectivity default
availabilityDefault ==
  /\ ~crashed
  /\ deferred # <<>>
  /\ deferred' = Tail(deferred)
  /\ LET d == Head(deferred)
         a == [name |-> "availabilityDefault", device |-> d.externalId]
     IN IF d.availability = ""
        THEN Step(a, <<>>)
        ELSE Step(a, <<Csu(d.externalId, d.channelId,
                           IF d.availability = "online" THEN "Connected"
                           ELSE IF d.availability = "offline" THEN "Disconnected"
                           ELSE "Unknown")>>)
  /\ UNCHANGED <<connVars, evq, m_devices, m_mqttByExternal, m_pendingRename,
                 m_pendingStatePayloads, timerVars>>

(***************************************************************************)
(* Worker thread: the queued invocations of MqttClient                     *)
(***************************************************************************)
workerConnectToHost ==
  /\ ~crashed
  /\ wreq # <<>> /\ Head(wreq).op = "connectToHost"
  /\ wreq' = Tail(wreq)
  /\ IF Head(wreq).host = ""
     THEN /\ Len(evq) < MaxQueue
          /\ evq' = Append(evq, EvError)
          /\ UNCHANGED <<workerVars, connFail>>
     ELSE IF wstate \in {"Connecting", "Connected"}
     THEN UNCHANGED <<evq, workerVars, connFail>>
     ELSE /\ m_mosq' = TRUE
          /\ m_hostname' = Head(wreq).host
          /\ Len(evq) < MaxQueue
          /\ \E rc \in {"MOSQ_ERR_SUCCESS", "MOSQ_ERR_ERRNO"} :
               IF rc # "MOSQ_ERR_SUCCESS"
               THEN /\ evq' = Append(evq, EvError)
                    /\ connFail' = TRUE
                    /\ UNCHANGED <<wstate, sockOpen, mosqDisconnect>>
               ELSE /\ wstate' = "Connecting"
                    /\ evq' = Append(evq, EvStateChanged("Connecting"))
                    /\ sockOpen' = TRUE
                    /\ mosqDisconnect' = FALSE
                    /\ connFail' = FALSE
  /\ Step([name |-> "worker.connectToHost"], <<>>)
  /\ UNCHANGED <<registryVars, timerVars, ip, m_client, clientState, adapterVars, crashed>>

workerDisconnectFromHost ==
  /\ ~crashed
  /\ wreq # <<>> /\ Head(wreq).op = "disconnectFromHost"
  /\ wreq' = Tail(wreq)
  /\ IF ~m_mosq \/ wstate = "Disconnected"
     THEN UNCHANGED <<evq, mosqDisconnect>>
     ELSE /\ mosqDisconnect' = sockOpen
          /\ \E rc \in {"MOSQ_ERR_SUCCESS", "MOSQ_ERR_NO_CONN"} :
               IF rc # "MOSQ_ERR_SUCCESS"
               THEN /\ Len(evq) < MaxQueue
                    /\ evq' = Append(evq, EvError)
               ELSE UNCHANGED evq
  /\ Step([name |-> "worker.disconnectFromHost"], <<>>)
  /\ UNCHANGED <<registryVars, timerVars, ip, m_client, clientState, adapterVars, wstate, m_mosq,
                 sockOpen, m_hostname, crashed, connFail>>

(***************************************************************************)
(* mosquitto loop thread: the callbacks of MqttWorker                      *)
(***************************************************************************)
\* setState of the worker: stateChanged only on a change
workerSetState(s) == IF wstate = s THEN <<>> ELSE <<EvStateChanged(s)>>

\* variant of handleConnect whose connected signal reaches the adapter's lambda
\* directly, on the thread of the callback
handleConnect_Direct ==
  /\ ~crashed
  /\ sockOpen /\ wstate = "Connecting"
  /\ \E rc \in {0, 5} :
       LET s == IF rc = 0 THEN "Connected" ELSE "Disconnected"
           e == workerSetState(s) \o (IF rc = 0 THEN <<>> ELSE <<EvError>>)
       IN /\ Len(evq) + Len(e) <= MaxQueue
          /\ evq' = evq \o e
          /\ wstate' = s
          /\ m_mqttConnected' = IF rc = 0 THEN TRUE ELSE m_mqttConnected
          /\ m_connected' = IF rc = 0 THEN updateConnectionState(TRUE, m_bridgeOnline)
                            ELSE m_connected
          /\ Step([name |-> "mosquitto.on_connect", rc |-> rc],
                  IF rc = 0
                  THEN setConnected(m_connected, updateConnectionState(TRUE, m_bridgeOnline))
                  ELSE <<>>)
  /\ UNCHANGED <<registryVars, timerVars, ip, m_client, clientState, m_bridgeOnline,
                 m_lastSeenRequested, m_pendingFullSync, reconnectActive, wreq, m_mosq,
                 sockOpen, m_hostname, mosqDisconnect, crashed, connFail>>

handleConnect ==
  /\ ~crashed
  /\ sockOpen /\ wstate = "Connecting"
  /\ \E rc \in {0, 5} :
       LET s == IF rc = 0 THEN "Connected" ELSE "Disconnected"
           e == workerSetState(s) \o <<IF rc = 0 THEN EvConnected ELSE EvError>>
       IN /\ Len(evq) + Len(e) <= MaxQueue
          /\ evq' = evq \o e
          /\ wstate' = s
          /\ Step([name |-> "mosquitto.on_connect", rc |-> rc], <<>>)
  /\ UNCHANGED <<registryVars, timerVars, ip, m_client, clientState, adapterVars, wreq, m_mosq, sockOpen,
                 m_hostname, mosqDisconnect, crashed, connFail>>

handleDisconnect ==
  /\ ~crashed
  /\ sockOpen
  /\ LET e == workerSetState("Disconnected") \o <<EvDisconnected>>
     IN /\ Len(evq) + Len(e) <= MaxQueue
        /\ evq' = evq \o e
  /\ wstate' = "Disconnected"
  /\ sockOpen' = FALSE
  /\ mosqDisconnect' = FALSE
  /\ Step([name |-> "mosquitto.on_disconnect"], <<>>)
  /\ UNCHANGED <<registryVars, timerVars, ip, m_client, clientState, adapterVars, wreq, m_mosq,
                 m_hostname, crashed, connFail>>

BridgeStateMessages == {EvMessage(<<"bridge", "state">>, p) : p \in {"online", "offline"}}

\* MqttWorker::handleMessage: the message is queued to the adapter thread
deliver(messages, room) ==
  /\ ~crashed
  /\ sockOpen /\ wstate = "Connected"
  /\ Len(evq) < room
  /\ \E m \in messages :
       /\ evq' = Append(evq, m)
       /\ Step([name |-> "mosquitto.on_message"], <<>>)
  /\ UNCHANGED connVars

handleMessage ==
  /\ deliver(BridgeStateMessages, MaxQueue)
  /\ UNCHANGED <<registryVars, timerVars>>

\* the registry messages the broker delivers to the adapter of SpecCmd: the lamp
\* is reported, is reported unusable, and reports its colour
DevicesMessages ==
  {EvMessage(<<"bridge", "devices">>,
             <<DeviceObj("lamp", "0xA", u, IF u THEN "online" ELSE "")>>) : u \in BOOLEAN}
StatePayloads == {"color" :> "{x,y}"}
StateMessages == {EvMessage(<<"lamp">>, p) : p \in StatePayloads}
DataMessages == DevicesMessages \cup StateMessages

\* a message of the bridge or of the lamp arrives when the adapter thread has at
\* most MaxInFlight - 1 signals left to handle
handleDataMessage ==
  /\ deliver(BridgeStateMessages \cup DataMessages, MaxInFlight)
  /\ UNCHANGED <<registryVars, timerVars>>

\* the registry messages the broker delivers to the adapter of SpecRename: the
\* device is reported under its old or its new name, and a rename is answered
RenamedMessages ==
  {EvMessage(<<"bridge", "devices">>, <<DeviceObj(n, "0xA", TRUE, "")>>) : n \in Names}
RenameResponses ==
  {EvMessage(<<"bridge", "response", "device", "rename">>,
             [status |-> s, from |-> "lamp", to |-> "desk"]) : s \in {"ok", "error"}}

DeviceGetResponses ==
  {EvMessage(<<"bridge", "response", "device", "get">>,
             [ieee_address |-> "0xA", friendly_name |-> n]) : n \in Names}

\* the registry messages the broker delivers to the adapter of SpecRegistry: the
\* device list of the bridge, retained or in response to a request, names up to
\* two devices, each under its own friendly name, usable or not; devices report
\* their state
RegistryIeees == {"0xA", "0xB"}
RegistryObjs == {DeviceObj(n, i, u, "") : n \in Names, i \in RegistryIeees, u \in BOOLEAN}
RegistryPayloads ==
  {<<>>} \cup {<<o>> : o \in RegistryObjs}
    \cup {p \in RegistryObjs \X RegistryObjs :
            /\ p[1].friendly_name # p[2].friendly_name
            /\ p[1].ieee_address # p[2].ieee_address}
RegistryMessages ==
  {EvMessage(t, p) : t \in {<<"bridge", "devices">>, <<"bridge", "response", "devices">>},
                     p \in RegistryPayloads}
    \cup {EvMessage(<<n>>, p) : n \in Names,
                                p \in {"color" :> "{x,y}", "temperature" :> "21"}}

handleRegistryMessage ==
  /\ deliver(RegistryMessages, MaxInFlight)
  /\ UNCHANGED <<registryVars, timerVars>>

handleRenameMessage ==
  /\ deliver(BridgeStateMessages \cup RenamedMessages \cup RenameResponses
               \cup DeviceGetResponses, MaxInFlight)
  /\ UNCHANGED <<registryVars, timerVars>>

(***************************************************************************)
(* Enum channels: the map from the raw values of an expose to integers     *)
(***************************************************************************)
\* the raw values of the model, in the case-insensitive order of QStringList::sort
KeyOrder == <<"01", "1", "2", "auto", "high", "low", "very_high", "veryhigh">>
MaxEnumValues == 2

\* QString::toInt of a raw value, -1 when it is no number
keyToInt(key) ==
  CASE key = "01" -> 1
    [] key = "1" -> 1
    [] key = "2" -> 2
    [] OTHER -> -1

\* mapRockerMode / mapSensitivityLevel: 0 when the raw value has no counterpart
mapRockerMode(raw) == 0
mapSensitivityLevel(raw) ==
  CASE raw = "low" -> 1
    [] raw = "high" -> 3
    [] raw \in {"very_high", "veryhigh"} -> 4
    [] OTHER -> 0

\* addChannelFromExpose: the name of the known enum of a property
enumNameOf(property) ==
  CASE property = "device_mode" -> "RockerMode"
    [] property \in {"motion_sensitivity", "sensitivity"} -> "SensitivityLevel"
    [] OTHER -> ""

\* addChannelFromExpose: normalizedMap, the raw values with a known counterpart
normalizedMap(property, rawKeys) ==
  LET mapped(key) == IF enumNameOf(property) = "RockerMode" THEN mapRockerMode(key)
                     ELSE IF enumNameOf(property) = "SensitivityLevel"
                     THEN mapSensitivityLevel(key)
                     ELSE 0
      keys == {rawKeys[i] : i \in DOMAIN rawKeys}
  IN [k \in {x \in keys : mapped(x) # 0} |-> mapped(k)]

\* the largest value of a map, 0 for the empty map
maxValueOf(map) ==
  IF DOMAIN map = {} THEN 0
  ELSE CHOOSE v \in {map[k] : k \in DOMAIN map} : \A k \in DOMAIN map : map[k] <= v

\* buildStableEnumMap, the loop over the sorted keys: a key without a value gets
\* the next integer after the largest one
RECURSIVE assignKeys(_, _)
assignKeys(map, sorted) ==
  IF sorted = <<>> THEN map
  ELSE IF Head(sorted) \in DOMAIN map THEN assignKeys(map, Tail(sorted))
  ELSE assignKeys(Insert(map, Head(sorted), maxValueOf(map) + 1), Tail(sorted))

\* buildStableEnumMap
buildStableEnumMap(rawKeys, existing) ==
  LET keys == {rawKeys[i] : i \in DOMAIN rawKeys}
      sorted == SelectSeq(KeyOrder, LAMBDA k : k \in keys)
  IN assignKeys(existing, sorted)

\* addChannelFromExpose: fallbackMap, the enum map of the channel
fallbackMap(property, rawKeys) ==
  LET keys == {rawKeys[i] : i \in DOMAIN rawKeys}
      allNumericEnumValues == rawKeys # <<>> /\ \A k \in keys : keyToInt(k) >= 0
  IN IF allNumericEnumValues THEN [k \in keys |-> keyToInt(k)]
     ELSE buildStableEnumMap(rawKeys, normalizedMap(property, rawKeys))

\* addChannelFromExpose: enumRawToValue, the raw values with a value other than 0
enumRawToValueOf(property, rawKeys) ==
  LET map == fallbackMap(property, rawKeys)
  IN [k \in {rawKeys[i] : i \in DOMAIN rawKeys} \cap {x \in DOMAIN map : map[x] # 0} |-> map[k]]

\* addChannelFromExpose: the choices of the channel, one per raw value with a value
choicesOf(property, rawKeys) ==
  LET map == fallbackMap(property, rawKeys)
  IN SelectSeq(rawKeys, LAMBDA k : Value(map, k, 0) # 0)

\* the lists of raw values of an enum expose: up to MaxEnumValues distinct values
RECURSIVE EnumLists(_)
EnumLists(n) ==
  IF n = 0 THEN {<<>>}
  ELSE LET shorter == EnumLists(n - 1)
       IN shorter \cup {Append(l, KeyOrder[i]) :
                          l \in {x \in shorter : Len(x) = n - 1}, i \in DOMAIN KeyOrder}
EnumExposes ==
  {e \in [property : {"sensitivity", "device_mode", "effect"}, values : EnumLists(MaxEnumValues)] :
     \A i, j \in DOMAIN e.values : i # j => e.values[i] # e.values[j]}

\* addChannelFromExpose for an expose of type enum
addEnumChannel ==
  /\ ~crashed
  /\ \E e \in EnumExposes :
       Step([name |-> "addEnumChannel", channelId |-> e.property, values |-> e.values,
             enumMap |-> fallbackMap(e.property, e.values),
             enumRawToValue |-> enumRawToValueOf(e.property, e.values),
             choices |-> choicesOf(e.property, e.values)], <<>>)
  /\ UNCHANGED <<connVars, evq, registryVars, timerVars>>

\* buildDeviceEntry: the connectivity and the firmware update channel, both Enum
\* channels built without choices and without an enum map
addImplicitChannel ==
  /\ ~crashed
  /\ \E c \in {"connectivity", "device_software_update"} :
       Step([name |-> "addImplicitChannel", channelId |-> c, values |-> <<>>,
             enumMap |-> EmptyHash, enumRawToValue |-> EmptyHash, choices |-> <<>>], <<>>)
  /\ UNCHANGED <<connVars, evq, registryVars, timerVars>>

(***************************************************************************)
(* The channels of a device entry                                          *)
(***************************************************************************)
\* the exposes a device definition may list: a mapped property, an unmapped one,
\* and properties named like the channels buildDeviceEntry adds itself
EntryExposes ==
  [property : {"state", "effect", "connectivity", "device_software_update"},
   type : {"binary", "composite"}, access : {1, 7}]
MaxExposes == 2
EntryExposeLists ==
  {<<>>} \cup {<<e>> : e \in EntryExposes}
    \cup {<<e[1], e[2]>> : e \in {x \in EntryExposes \X EntryExposes : MaxExposes >= 2}}

EntryChannel(id, writable) == [id |-> id, writable |-> writable]

\* buildDeviceEntry, the loop over the exposes: addChannelFromExpose appends a
\* channel unless the channel id is bound already or the expose is not supported
RECURSIVE exposeChannels(_, _)
exposeChannels(entry, exposes) ==
  IF exposes = <<>> THEN entry
  ELSE LET e == Head(exposes)
       IN IF \/ e.property \in DOMAIN entry.bindingsByChannel
             \/ ~(e.property \in {"state"} \/ e.type \in {"enum", "binary", "numeric"})
          THEN exposeChannels(entry, Tail(exposes))
          ELSE exposeChannels(
                 [channels |-> Append(entry.channels,
                                      EntryChannel(e.property, flagsFromAccess(e.access))),
                  bindingsByChannel |->
                    Insert(entry.bindingsByChannel, e.property, flagsFromAccess(e.access))],
                 Tail(exposes))

\* buildDeviceEntry: the channels of the exposes, then the connectivity and the
\* firmware update channel, appended and bound whatever is bound already
entryChannels(exposes) ==
  LET e == exposeChannels([channels |-> <<>>, bindingsByChannel |-> EmptyHash], exposes)
  IN [channels |-> e.channels \o <<EntryChannel("connectivity", FALSE),
                                    EntryChannel("device_software_update", FALSE)>>,
      bindingsByChannel |->
        Insert(Insert(e.bindingsByChannel, "connectivity", FALSE),
               "device_software_update", FALSE)]

\* buildDeviceEntry for one device definition
buildEntry ==
  /\ ~crashed
  /\ \E exposes \in EntryExposeLists :
       Step([name |-> "buildDeviceEntry", exposes |-> exposes,
             entry |-> entryChannels(exposes)], <<>>)
  /\ UNCHANGED <<connVars, evq, registryVars, timerVars>>

(***************************************************************************)
(* Brightness: raw values and percent                                      *)
(***************************************************************************)
\* a number as a fraction with a positive denominator
Frac(num, den) == [num |-> num, den |-> den]
\* qBound(lo, x, hi) for a fraction x and integers lo, hi
qBoundFrac(lo, x, hi) ==
  IF x.num < lo * x.den THEN Frac(lo, 1)
  ELSE IF x.num > hi * x.den THEN Frac(hi, 1)
  ELSE x

\* variant of scaleToPercent without the qBound of the raw value
scaleToPercent_Unbound(raw, rawMin, rawMax) ==
  IF rawMax <= rawMin THEN Frac(raw, 1)
  ELSE Frac((raw - rawMin) * 100, rawMax - rawMin)

\* scaleToPercent, for an integer raw value
scaleToPercent(raw, rawMin, rawMax) ==
  IF rawMax <= rawMin THEN Frac(raw, 1)
  ELSE LET clamped == qBoundFrac(rawMin, Frac(raw, 1), rawMax)
       IN Frac((clamped.num - rawMin) * 100, rawMax - rawMin)

\* scaleFromPercent, for a percent that is a fraction
scaleFromPercent(percent, rawMin, rawMax) ==
  IF rawMax <= rawMin THEN percent
  ELSE LET clamped == qBoundFrac(0, percent, 100)
       IN Frac(rawMin * 100 * clamped.den + (rawMax - rawMin) * clamped.num,
               100 * clamped.den)

\* the brightness exposes of the model and the raw range of their binding:
\* 0..254 when the expose gives no range
BrightnessExposes == [value_min : {0, 1, 10}, value_max : {0, 4, 10}, value_step : {1, 2}]
brightnessRange(expose) ==
  IF expose.value_max <= expose.value_min
  THEN [rawMin |-> 0, rawMax |-> 254, rawStep |-> expose.value_step]
  ELSE [rawMin |-> expose.value_min, rawMax |-> expose.value_max,
        rawStep |-> expose.value_step]
RawValues == {-1, 0, 1, 2, 3, 4, 5, 10, 127, 254, 255}
Percents == {-10, 0, 50, 100, 150}

\* handleDeviceStatePayload decodes the raw brightness of a state payload, and
\* buildCommandPayload encodes that percent again
decodeBrightness ==
  /\ ~crashed
  /\ \E expose \in BrightnessExposes, raw \in RawValues :
       LET b == brightnessRange(expose)
           percent == scaleToPercent(raw, b.rawMin, b.rawMax)
       IN Step([name |-> "decodeBrightness", expose |-> expose, binding |-> b, raw |-> raw,
                percent |-> percent,
                encoded |-> scaleFromPercent(percent, b.rawMin, b.rawMax)], <<>>)
  /\ UNCHANGED <<connVars, evq, registryVars, timerVars>>

\* buildCommandPayload encodes the percent the host sets
encodeBrightness ==
  /\ ~crashed
  /\ \E expose \in BrightnessExposes, percent \in Percents :
       LET b == brightnessRange(expose)
       IN Step([name |-> "encodeBrightness", expose |-> expose, binding |-> b,
                percent |-> percent,
                encoded |-> scaleFromPercent(Frac(percent, 1), b.rawMin, b.rawMax)], <<>>)
  /\ UNCHANGED <<connVars, evq, registryVars, timerVars>>

(***************************************************************************)
(* The data types of the channels and of the values reported for them      *)
(***************************************************************************)
\* addChannelFromExpose, kMappings: kind and data type of the mapped properties
Mapping(kind, dataType) == [kind |-> kind, dataType |-> dataType]
kMappingsTable ==
  [state |-> Mapping("PowerOnOff", "Bool"),
   brightness |-> Mapping("Brightness", "Float"),
   color_temp |-> Mapping("ColorTemperature", "Float"),
   color |-> Mapping("ColorRGB", "Color"),
   temperature |-> Mapping("Temperature", "Float"),
   humidity |-> Mapping("Humidity", "Float"),
   illuminance |-> Mapping("Illuminance", "Int"),
   illumination |-> Mapping("AmbientLightLevel", "Enum"),
   occupancy |-> Mapping("Motion", "Bool"),
   motion |-> Mapping("Motion", "Bool"),
   battery |-> Mapping("Battery", "Int"),
   battery_low |-> Mapping("Unknown", "Bool"),
   linkquality |-> Mapping("LinkQuality", "Float"),
   keep_time |-> Mapping("Duration", "Int"),
   tamper |-> Mapping("Tamper", "Bool"),
   power |-> Mapping("Power", "Float"),
   voltage |-> Mapping("Voltage", "Float"),
   current |-> Mapping("Current", "Float"),
   energy |-> Mapping("Energy", "Float"),
   co2 |-> Mapping("CO2", "Float"),
   action |-> Mapping("ButtonEvent", "Int")]

\* the exposes of the model: every mapped property and one unmapped property, of
\* every expose type; an enum expose lists the values "low" and "high"
EnumValues == {"low", "high"}
TypedExposes ==
  [property : DOMAIN kMappingsTable \cup {"effect"},
   type : {"numeric", "enum", "binary", "composite"}]

\* addChannelFromExpose: does the expose get a channel
hasChannel(expose) ==
  expose.property \in DOMAIN kMappingsTable \/ expose.type \in {"enum", "binary", "numeric"}

\* addChannelFromExpose: kind, data type and enum map of the binding of an expose
TypedBinding(channelId, kind, dataType, enumRawToValue, isAvailability) ==
  [channelId |-> channelId, kind |-> kind, dataType |-> dataType,
   enumRawToValue |-> enumRawToValue, isAvailability |-> isAvailability]
typedBindingOf(expose) ==
  LET mapped == expose.property \in DOMAIN kMappingsTable
      isEnum == expose.type = "enum"
      kind == IF mapped THEN kMappingsTable[expose.property].kind ELSE "Unknown"
      dataType == IF isEnum THEN "Enum"
                  ELSE IF mapped THEN kMappingsTable[expose.property].dataType
                  ELSE IF expose.type = "binary" THEN "Bool"
                  ELSE "Float"
  IN TypedBinding(expose.property, kind, dataType, IF isEnum THEN EnumValues ELSE {}, FALSE)

\* buildDeviceEntry: the bindings of the connectivity and of the firmware update channel
availabilityBinding == TypedBinding("connectivity", "ConnectivityStatus", "Enum", {}, TRUE)
updateBinding == TypedBinding("device_software_update", "DeviceSoftwareUpdate", "Enum", {}, FALSE)
TypedBindings ==
  {typedBindingOf(e) : e \in {x \in TypedExposes : hasChannel(x)}}
    \cup {availabilityBinding, updateBinding}

\* the JSON value a state payload holds for a property, by its type
JsonValues ==
  {[t |-> "undefined", s |-> ""], [t |-> "bool", s |-> ""], [t |-> "double", s |-> ""],
   [t |-> "object", s |-> ""], [t |-> "string", s |-> "ON"], [t |-> "string", s |-> "low"]}

\* the type of an enum value: the mapped integer of a listed string, the raw string
\* of any other string, the integer of a number
enumType(binding, value) ==
  IF value.t = "string"
  THEN IF value.s \in binding.enumRawToValue THEN "Int" ELSE "String"
  ELSE IF value.t = "double" THEN "Int"
  ELSE ""

\* Bool from a JSON bool, string or number
boolType(value) == IF value.t \in {"bool", "string", "double"} THEN "Bool" ELSE ""

\* variant of outValueType that converts the value to the declared data type
outValueType_Declared(binding, value) ==
  CASE binding.dataType = "Float" -> "Double"
    [] binding.dataType = "Enum" -> "Int"
    [] OTHER -> binding.dataType

\* handleDeviceStatePayload: the type of the QVariant the decode switch produces
\* for a value, "" when outValue stays invalid
outValueType(binding, value) ==
  CASE binding.kind = "PowerOnOff" -> boolType(value)
    [] binding.kind \in {"Brightness", "ColorTemperature", "LinkQuality"} -> "Double"
    [] binding.kind = "ColorRGB" -> IF value.t = "object" THEN "Color" ELSE ""
    [] binding.kind \in {"Temperature", "Humidity", "Illuminance", "CO2", "Power", "Voltage",
                         "Current", "Energy"} -> "Double"
    [] binding.kind = "AmbientLightLevel" -> enumType(binding, value)
    [] binding.kind \in {"Duration", "SignalStrength", "Battery"} -> "Int"
    [] binding.kind = "Motion" -> boolType(value)
    [] binding.kind = "ButtonEvent" -> IF value.t = "string" THEN "Int" ELSE ""
    [] binding.kind = "Unknown" ->
         (CASE binding.dataType = "Bool" -> boolType(value)
            [] binding.dataType = "Int" -> "Int"
            [] binding.dataType = "Float" -> "Double"
            [] binding.dataType = "Enum" -> enumType(binding, value)
            [] OTHER -> "")
    [] OTHER -> ""

\* handleDeviceStatePayload: the type of the value emitted for one binding and the
\* value the payload holds for its property
emittedType(binding, value) ==
  IF binding.isAvailability
  THEN IF value.t = "undefined" THEN "" ELSE "Int"
  ELSE IF binding.channelId = "device_software_update"
  THEN IF value.t = "object" THEN "JsonObject" ELSE ""
  ELSE IF value.t = "undefined" THEN ""
  ELSE outValueType(binding, value)

\* handleDeviceStatePayload for a known device and a payload with one member
decodeDeviceState ==
  /\ ~crashed
  /\ \E binding \in TypedBindings, value \in JsonValues :
       LET t == emittedType(binding, value)
       IN Step([name |-> "decode", binding |-> binding, value |-> value],
               IF t = "" THEN <<>> ELSE <<Csu("0xA", binding.channelId, [type |-> t])>>)
  /\ UNCHANGED <<connVars, m_connected, m_mqttConnected, m_bridgeOnline, m_lastSeenRequested,
                 m_pendingFullSync, reconnectActive, evq, registryVars, timerVars>>

\* a message whose payload is no JSON document, or a JSON document of another
\* shape than its handler expects
EvUnparsable(topic, p) == [t |-> "messageReceived", topic |-> topic, p |-> p, bad |-> TRUE]
UnparsableTopics ==
  {<<"bridge", "info">>, <<"bridge", "health">>, <<"bridge", "response", "options">>,
   <<"bridge", "response", "device", "rename">>, <<"bridge", "response", "device", "get">>,
   <<"lamp">>}
UnparsablePayloads == {"{", "[1]"}

\* handleMqttMessage, the branches of a payload that fails to parse or is no JSON
\* object: the message is logged and ignored
onUnparsable ==
  /\ ~crashed
  /\ evq # <<>> /\ Head(evq).t = "messageReceived"
  /\ "bad" \in DOMAIN Head(evq)
  /\ Head(evq).topic \in UnparsableTopics
  /\ Step([name |-> "unparsable", topic |-> Head(evq).topic, payload |-> Head(evq).p], <<>>)
  /\ evq' = Tail(evq)
  /\ UNCHANGED <<connVars, registryVars, timerVars>>

\* the messages of the bridge whose payload may be malformed: the device list (with
\* no device array, or with one device), the availability of a device, and the
\* unparsable payloads
ParseMessages ==
  {EvMessage(<<"bridge", "devices">>, p) : p \in {<<>>, <<DeviceObj("lamp", "0xA", TRUE, "")>>}}
    \cup {EvMessage(<<"lamp", "availability">>, p) :
            p \in {"online", "{\"state\":\"offline\"}", "{offline", "{\"status\":1}"}}
    \cup {EvUnparsable(t, p) : t \in UnparsableTopics, p \in UnparsablePayloads}

handleParseMessage ==
  /\ deliver(ParseMessages, MaxInFlight)
  /\ UNCHANGED <<registryVars, timerVars>>

Next ==
  \/ start
  \/ stop
  \/ adapterConfigUpdated
  \/ reconnectTimeout
  \/ onStateChanged
  \/ onConnected
  \/ onDisconnected
  \/ onErrorOccurred
  \/ onBridgeState
  \/ workerConnectToHost
  \/ workerDisconnectFromHost
  \/ handleConnect
  \/ handleDisconnect
  \/ handleMessage

Spec == Init /\ [][Next]_vars

(***************************************************************************)
(* Adapter actions                                                         *)
(***************************************************************************)
ActionIds == {"permitJoin", "restartZ2M", "settings", "identify"}
ActionParams == {EmptyHash, "interval" :> "5"}
ActionCmdIds == {0} \cup CmdIds

ActionResult(id, status) == [k |-> "actionResult", id |-> id, status |-> status]
AdapterMetaUpdated(meta) == [k |-> "adapterMetaUpdated", meta |-> meta]

\* variant of the default implementation that reports Success for every action id
AdapterInterface_invokeAdapterAction_Success(actionId, params, cmdId) ==
  IF actionId = "settings"
  THEN <<AdapterMetaUpdated(params)>>
       \o (IF cmdId = 0 THEN <<>> ELSE <<ActionResult(cmdId, "Success")>>)
  ELSE IF cmdId = 0 THEN <<>> ELSE <<ActionResult(cmdId, "Success")>>

\* AdapterInterface::invokeAdapterAction, the default implementation
AdapterInterface_invokeAdapterAction(actionId, params, cmdId) ==
  IF actionId = "settings"
  THEN <<AdapterMetaUpdated(params)>>
       \o (IF cmdId = 0 THEN <<>> ELSE <<ActionResult(cmdId, "Success")>>)
  ELSE IF cmdId = 0 THEN <<>> ELSE <<ActionResult(cmdId, "NotImplemented")>>

\* the topic and the payload of permitJoin and restartZ2M
actionTopic(actionId) ==
  IF actionId = "restartZ2M" THEN <<"bridge", "request", "restart">>
  ELSE <<"bridge", "request", "permit_join">>
actionPayload(actionId) ==
  IF actionId = "restartZ2M" THEN EmptyHash ELSE ("value" :> "true" @@ "time" :> "120")

\* Z2mAdapter::invokeAdapterAction
invokeAdapterAction ==
  /\ ~crashed
  /\ \E actionId \in ActionIds, params \in ActionParams, cmdId \in ActionCmdIds :
       LET a == [name |-> "invokeAdapterAction", actionId |-> actionId, cmdId |-> cmdId,
                 params |-> params]
       IN IF actionId \notin {"permitJoin", "restartZ2M"}
          THEN /\ Step(a, AdapterInterface_invokeAdapterAction(actionId, params, cmdId))
               /\ UNCHANGED evq
          ELSE IF ~m_client \/ clientState # "Connected"
          THEN /\ Step(a, <<ActionResult(cmdId, "Failure")>>)
               /\ UNCHANGED evq
          ELSE IF ~m_bridgeOnline
          THEN /\ Step(a, <<ActionResult(cmdId, "Failure")>>)
               /\ UNCHANGED evq
          ELSE /\ wreq = <<>>
               /\ \E r \in PublishResults :
                    /\ Len(evq) + Len(ErrorsOf({r})) <= MaxQueue
                    /\ evq' = evq \o ErrorsOf({r})
                    /\ Step(a, <<Pub(actionTopic(actionId), actionPayload(actionId), r),
                                 ActionResult(cmdId, IF r = "ok" THEN "Success"
                                                     ELSE "Failure")>>)
  /\ UNCHANGED <<ip, m_client, clientState, m_connected, m_mqttConnected, m_bridgeOnline,
                 m_lastSeenRequested, m_pendingFullSync, reconnectActive, wreq, workerVars,
                 crashed, connFail, registryVars, timerVars>>

\* one session of an adapter with a configured broker: started, never stopped
InitCmd == Init /\ ip = "broker"

NextSession ==
  \/ start
  \/ reconnectTimeout
  \/ onStateChanged
  \/ onConnected
  \/ onDisconnected
  \/ onErrorOccurred
  \/ onBridgeState
  \/ workerConnectToHost
  \/ handleConnect
  \/ handleDisconnect
  \/ handleMessage

SpecSession == InitCmd /\ [][NextSession]_vars

\* the adapter, the registry of its lamp and the channel commands of the host,
\* over sessions that are lost and made again
NextCmd ==
  \/ start
  \/ reconnectTimeout
  \/ onStateChanged
  \/ onConnected
  \/ onDisconnected
  \/ onBridgeState
  \/ onBridgeDevices
  \/ onDeviceState
  \/ updateChannelState
  \/ postSetRefreshTimeout
  \/ workerConnectToHost
  \/ handleConnect
  \/ handleDisconnect
  \/ handleDataMessage

SpecCmd == InitCmd /\ [][NextCmd]_vars

\* the adapter, the registry of its devices and the renames of the host, in a
\* session that is not lost
NextRename ==
  \/ start
  \/ onStateChanged
  \/ onConnected
  \/ onErrorOccurred
  \/ onBridgeState
  \/ onBridgeDevices
  \/ onRenameResponse
  \/ onDeviceGetResponse
  \/ updateDeviceName
  \/ renameTimeout
  \/ availabilityDefault
  \/ workerConnectToHost
  \/ handleConnect
  \/ handleRenameMessage

SpecRename == InitCmd /\ [][NextRename]_vars

\* the adapter and the registry of the devices of a bridge with two devices
NextRegistry ==
  \/ start
  \/ requestFullSync
  \/ onStateChanged
  \/ onConnected
  \/ onErrorOccurred
  \/ onBridgeDevices
  \/ onDeviceState
  \/ availabilityDefault
  \/ workerConnectToHost
  \/ handleConnect
  \/ handleRegistryMessage

SpecRegistry == InitCmd /\ [][NextRegistry]_vars

\* the adapter started and stopped by the host while renames are requested
NextStop ==
  \/ start
  \/ stop
  \/ reconnectTimeout
  \/ onStateChanged
  \/ onConnected
  \/ onDisconnected
  \/ onErrorOccurred
  \/ updateDeviceName
  \/ renameTimeout
  \/ workerConnectToHost
  \/ handleConnect
  \/ handleDisconnect

SpecStop == InitCmd /\ [][NextStop]_vars

\* the adapter started and stopped by the host while adapter actions are invoked
NextAction ==
  \/ start
  \/ stop
  \/ invokeAdapterAction
  \/ reconnectTimeout
  \/ onStateChanged
  \/ onConnected
  \/ onDisconnected
  \/ onErrorOccurred
  \/ onBridgeState
  \/ workerConnectToHost
  \/ handleConnect
  \/ handleDisconnect
  \/ handleMessage

SpecAction == InitCmd /\ [][NextAction]_vars

\* the adapter receiving well-formed and malformed messages of the bridge
NextParse ==
  \/ start
  \/ requestFullSync
  \/ onStateChanged
  \/ onConnected
  \/ onErrorOccurred
  \/ onBridgeDevices
  \/ onAvailability
  \/ onUnparsable
  \/ availabilityDefault
  \/ workerConnectToHost
  \/ handleConnect
  \/ handleParseMessage

SpecParse == InitCmd /\ [][NextParse]_vars

\* the decoding of the state payloads of a device
NextDecode == decodeDeviceState

SpecDecode == InitCmd /\ [][NextDecode]_vars

\* the Enum channels built for a device entry
NextEnum ==
  \/ addEnumChannel
  \/ addImplicitChannel

SpecEnum == InitCmd /\ [][NextEnum]_vars

\* the channels built for a device entry
NextEntry == buildEntry

SpecEntry == InitCmd /\ [][NextEntry]_vars

\* the brightness values decoded and encoded for a binding
NextBrightness ==
  \/ decodeBrightness
  \/ encodeBrightness

SpecBrightness == InitCmd /\ [][NextBrightness]_vars

(***************************************************************************)
(* Connection state machine: C1 .. C5                                      *)
(***************************************************************************)
ConnEvents == OfKind(out, "connectionStateChanged")

NoPending(q, kind) == \A i \in 1..Len(q) : q[i].t # kind

\* C2: when a connect attempt failed (mosquitto_connect returned an error) and the
\* adapter has handled the error, a reconnect is scheduled: the reconnect timer runs.
C2_FailedConnectSchedulesReconnect ==
  (m_client /\ connFail /\ wreq = <<>> /\ NoPending(evq, "errorOccurred"))
    => reconnectActive

\* C3: from the handling of MQTT connected until the next MQTT disconnect (that is,
\* while m_mqttConnected holds) the reconnect timer is inactive.
C3_TimerInactiveWhileMqttConnected ==
  (m_client /\ m_mqttConnected) => ~reconnectActive

\* C4 as stated: handling the MQTT connected event alone never makes the adapter
\* Connected (no connection_state_changed(true) in that handler).
C4_ConnectedEventNeverConnects ==
  act.name = "connected" => (~m_connected /\ ConnEvents = <<>>)

\* C4 as amended: the connected handler leaves the adapter Connected exactly when
\* bridge_online holds (it starts true and keeps the last reported bridge state);
\* the adapter becomes Connected only in that handler or, after a bridge/state
\* offline, in the handler of a bridge/state online message.
C4_ConnectedIffBridgeOnline ==
  /\ act.name = "connected" => (m_connected = m_bridgeOnline)
  /\ (~prevConnected /\ m_connected) =>
       \/ act.name = "connected"
       \/ (act.name = "bridge/state" /\ act.p = "online" /\ m_mqttConnected)

\* MQTT was connected with the bridge offline; bridge/state online makes it Connected
C4_Witness ==
  /\ act.name = "bridge/state" /\ act.p = "online"
  /\ ~prevConnected /\ m_connected
  /\ ConnEvents = <<Csc(TRUE)>>

\* C5: every handled MQTT connected event subscribes to <baseTopic>/# and then
\* publishes {} to <baseTopic>/bridge/request/info.
C5_ConnectedSubscribesAndRequestsInfo ==
  act.name = "connected" =>
    /\ Len(out) >= 2
    /\ out[Len(out) - 1] = Sub(<<"#">>)
    /\ out[Len(out)].k = "publish"
    /\ out[Len(out)].topic = <<"bridge", "request", "info">>
    /\ out[Len(out)].payload = EmptyHash

(***************************************************************************)
(* Commands: C6 .. C10                                                     *)
(***************************************************************************)
\* the device and channel a handled updateChannelState call names, as the registry
\* (which the call leaves unchanged) resolves them
CmdMqttId == Value(m_mqttByExternal, act.device, act.device)
CmdKnownDevice == CmdMqttId \in DOMAIN m_devices
CmdKnownChannel ==
  CmdKnownDevice /\ act.channel \in DOMAIN m_devices[CmdMqttId].bindingsByChannel
CmdBinding == m_devices[CmdMqttId].bindingsByChannel[act.channel]
CmdWritable == CmdKnownChannel /\ CmdBinding.writable
\* the value has the type the channel's payload is built from
CmdEncodable == CmdBinding.kind # "ColorRGB" \/ act.value.type = "Color"
CmdSets == SelectSeq(out, LAMBDA e : e.k = "publish" /\ e.topic = <<CmdMqttId, "set">>)
CmdSetPublished == Len(CmdSets) = 1 /\ CmdSets[1].r = "ok"
CmdResults == OfKind(out, "cmdResult")

\* the status of the first failing check, in the order of the claim
C6_Status(offline) ==
  IF ~CmdKnownDevice THEN "NotSupported"
  ELSE IF ~CmdKnownChannel THEN "NotSupported"
  ELSE IF ~CmdWritable THEN "NotSupported"
  ELSE IF offline THEN "TemporarilyOffline"
  ELSE IF ~CmdEncodable THEN "InvalidArgument"
  ELSE IF ~CmdSetPublished THEN "Failure"
  ELSE "Success"

\* C6 as stated: every update_channel_state emits exactly one CmdResponse with the
\* call's cmd_id whose status is that of the first failing check, the fourth check
\* being "the adapter is not Connected" (the Connected flag), Success otherwise.
C6_FirstFailingCheck ==
  act.name = "updateChannelState" =>
    CmdResults = <<CmdResult(act.cmdId, C6_Status(~m_connected))>>

\* C6 as amended: the same, the fourth check being "the adapter is not Connected or
\* its MQTT client is not in the Connected state"; a set payload is published only
\* when the first four checks and the encoding pass.
C6_FirstFailingCheckClient ==
  act.name = "updateChannelState" =>
    /\ CmdResults = <<CmdResult(act.cmdId,
                       C6_Status(~m_connected \/ ~m_client \/ clientState # "Connected"))>>
    /\ CmdResults[1].status \in {"NotSupported", "TemporarilyOffline", "InvalidArgument"}
         => OfKind(out, "publish") = <<>>
    /\ CmdResults[1].status = "Success" => CmdSetPublished

\* a command issued between the client's stateChanged(Disconnected) and the adapter's
\* handling of disconnected: the flag still says Connected, the client does not
C6_Witness ==
  /\ act.name = "updateChannelState"
  /\ CmdWritable /\ m_connected /\ clientState # "Connected"
  /\ CmdResults = <<CmdResult(act.cmdId, "TemporarilyOffline")>>

\* C7: a bridge/state offline delivered to a Connected adapter emits
\* connection_state_changed(false), and while the bridge is reported offline every
\* update_channel_state on a known writable channel returns TemporarilyOffline,
\* publishes nothing and leaves the post-set refresh timers as they were.
C7_BridgeOfflineRejectsCommands ==
  [][ /\ (act'.name = "bridge/state" /\ act'.p = "offline" /\ m_connected)
         => (OfKind(out', "connectionStateChanged") = <<Csc(FALSE)>> /\ ~m_connected')
      /\ (act'.name = "updateChannelState" /\ CmdWritable' /\ ~m_bridgeOnline)
         => /\ out' = <<CmdResult(act'.cmdId, "TemporarilyOffline")>>
            /\ UNCHANGED m_postSetRefreshTimers ]_vars

\* the MQTT client is connected, only the bridge is offline, and a command is rejected
C7_Witness ==
  /\ act.name = "updateChannelState"
  /\ CmdWritable /\ ~m_bridgeOnline
  /\ m_client /\ clientState = "Connected" /\ m_mqttConnected
  /\ lastCsc = <<FALSE>>
  /\ out = <<CmdResult(act.cmdId, "TemporarilyOffline")>>

\* the {} publishes to <mqtt_id>/get and the timers (re)started in the emissions o
RefreshGets(o) == SelectSeq(o, LAMBDA e : e.k = "publish" /\ e.topic[Len(e.topic)] = "get")
TimersStarted(o) == OfKind(o, "startTimer")

\* C8 as stated: when the refresh timer of a burst of successful commands expires,
\* exactly one {} is published to <mqtt_id>/get.
C8_BurstPublishesOnce ==
  (act.name = "postSetRefreshTimeout" /\ act.burst >= 1) =>
    /\ Len(RefreshGets(out)) = 1
    /\ RefreshGets(out)[1].topic = <<act.mqttId, "get">>
    /\ RefreshGets(out)[1].payload = EmptyHash

\* C8 as amended: a successful update_channel_state (re)starts the device's one
\* 1000 ms single-shot timer and a command that does not succeed leaves the timers
\* alone; {} is published to <mqtt_id>/get only when that timer expires, once if
\* the MQTT client is then connected and not at all otherwise; the expired timer
\* is inactive until the next successful command.
C8_DebouncedRefresh ==
  [][ /\ act'.name = "updateChannelState" =>
           IF CmdResults'[1].status = "Success"
           THEN /\ m_postSetRefreshTimers' =
                     Insert(m_postSetRefreshTimers, CmdMqttId', TRUE)
                /\ TimersStarted(out') = <<StartTimer(CmdMqttId', 1000)>>
           ELSE /\ UNCHANGED m_postSetRefreshTimers
                /\ TimersStarted(out') = <<>>
      /\ act'.name = "postSetRefreshTimeout" =>
           /\ m_postSetRefreshTimers[act'.mqttId]
           /\ ~m_postSetRefreshTimers'[act'.mqttId]
           /\ RefreshGets(out') =
                (IF m_client /\ clientState = "Connected"
                 THEN <<Pub(<<act'.mqttId, "get">>, EmptyHash, out'[1].r)>>
                 ELSE <<>>)
      /\ RefreshGets(out') # <<>> => act'.name = "postSetRefreshTimeout" ]_vars

\* two successful commands to one device, then the single expiry publishes once
C8_Witness ==
  /\ act.name = "postSetRefreshTimeout" /\ act.burst = 2
  /\ RefreshGets(out) = <<Pub(<<act.mqttId, "get">>, EmptyHash, "ok")>>
  /\ ~m_postSetRefreshTimers[act.mqttId]

\* the channels of the modelled devices a command can be sent to
WritableChannels == {"state", "color"}

\* C9: update_channel_state emits no channel_state_updated, only its CmdResponse as
\* the last emission; a channel_state_updated of a commandable channel is emitted
\* only while a state message from MQTT is ingested (on arrival, or when bridge/devices
\* flushes the message buffered for the device), so after the CmdResponse.
C9_NoLocalStateUpdate ==
  /\ act.name = "updateChannelState" =>
       /\ OfKind(out, "channelStateUpdated") = <<>>
       /\ Len(CmdResults) = 1 /\ out[Len(out)] = CmdResults[1]
  /\ \A i \in 1..Len(out) :
       (out[i].k = "channelStateUpdated" /\ out[i].channel \in WritableChannels)
         => act.name \in {"deviceState", "bridge/devices"}

\* a command succeeded (its refresh is still pending) and the state message that
\* follows reports the commanded channel
C9_Witness ==
  /\ act.name = "deviceState"
  /\ Value(burst, act.mqttId, 0) >= 1
  /\ \E i \in 1..Len(out) :
       out[i].k = "channelStateUpdated" /\ out[i].channel = "color"

\* C10 as stated: update_device_name for an id with a pending rename emits
\* TemporarilyOffline for the new cmd_id, publishes nothing and leaves the pending
\* entry unchanged.
C10_PendingRenameRejects ==
  [][ (act'.name = "updateDeviceName" /\ act'.device \in DOMAIN m_pendingRename)
        => /\ out' = <<CmdResult(act'.cmdId, "TemporarilyOffline")>>
           /\ UNCHANGED m_pendingRename ]_vars

\* C10 as amended: update_device_name for an id with a pending rename emits, for the
\* new cmd_id, InvalidArgument when the new name is empty after trimming and
\* TemporarilyOffline otherwise, publishes nothing and leaves the pending entry
\* unchanged.
C10_PendingRenameRejectsNamed ==
  [][ (act'.name = "updateDeviceName" /\ act'.device \in DOMAIN m_pendingRename)
        => /\ out' = <<CmdResult(act'.cmdId,
                                 IF trimmed(act'.to) = "" THEN "InvalidArgument"
                                 ELSE "TemporarilyOffline")>>
           /\ UNCHANGED <<m_pendingRename, renameTimers>> ]_vars

\* a second rename of the device, under another cmd_id, while the first is pending
C10_Witness ==
  /\ act.name = "updateDeviceName" /\ trimmed(act.to) # ""
  /\ act.device \in DOMAIN m_pendingRename
  /\ m_pendingRename[act.device].cmdId # act.cmdId
  /\ out = <<CmdResult(act.cmdId, "TemporarilyOffline")>>
  /\ m_connected /\ clientState = "Connected"

(***************************************************************************)
(* Renames: C11 .. C13                                                     *)
(***************************************************************************)
\* the ids with a pending rename whose entry the step removed
RenamesSettled == {d \in DOMAIN m_pendingRename : d \notin DOMAIN m_pendingRename'}

\* C11: an update_device_name call either emits one rejection for its cmd_id and
\* records nothing, or publishes the request, emits no result and records the
\* pending entry; every later step that emits a result emits it, Success or
\* Failure, for the cmd_id of a pending entry that it removes in the same step,
\* one result per removed entry, and leaves the other entries as they are; as
\* long as an entry is pending the timeout armed by its call is running.
C11_OneResultPerRename ==
  /\ [](\A d \in DOMAIN m_pendingRename :
          \E i \in 1..Len(renameTimers) :
            renameTimers[i] = [device |-> d, cmdId |-> m_pendingRename[d].cmdId])
  /\ [][ LET res == OfKind(out', "cmdResult")
         IN IF act'.name = "updateDeviceName"
            THEN \/ /\ Len(res) = 1 /\ res[1].id = act'.cmdId
                    /\ res[1].status \notin {"Success"}
                    /\ UNCHANGED m_pendingRename
                 \/ /\ res = <<>>
                    /\ OfKind(out', "publish") # <<>>
                    /\ act'.device \notin DOMAIN m_pendingRename
                    /\ m_pendingRename' =
                         Insert(m_pendingRename, act'.device,
                                [cmdId |-> act'.cmdId, targetName |-> trimmed(act'.to)])
            ELSE /\ DOMAIN m_pendingRename' \subseteq DOMAIN m_pendingRename
                 /\ \A d \in DOMAIN m_pendingRename' : m_pendingRename'[d] = m_pendingRename[d]
                 /\ Len(res) = Cardinality(RenamesSettled)
                 /\ \A d \in RenamesSettled :
                      \E i \in 1..Len(res) :
                        /\ res[i].id = m_pendingRename[d].cmdId
                        /\ res[i].status \in {"Success", "Failure"} ]_vars

\* a bridge/devices entry under the requested name completed the pending rename
C11_Witness ==
  /\ act.name = "bridge/devices"
  /\ \E c \in CmdIds : OfKind(out, "cmdResult") = <<CmdResult(c, "Success")>>
  /\ m_pendingRename = EmptyHash
  /\ renameTimers # <<>>

\* C12: a rename is failed by a timeout only by the timer that its own call armed,
\* that is 10 s after that same rename was requested: the cmd_id of the Failure
\* that a timeout emits is the cmd_id of the call that started the timer.
C12_TimeoutFailsItsOwnRename ==
  [][ (act'.name = "renameTimeout" /\ OfKind(out', "cmdResult") # <<>>)
        => OfKind(out', "cmdResult") = <<CmdResult(act'.armedFor, "Failure")>> ]_vars

\* C13: when a rename response with status ok settles the pending rename of a
\* known device, it emits Success for the cmd_id of that rename and from then on
\* the external id of the device resolves to the rename target.
C13_ResponseRemapsExternalId ==
  [][ (act'.name = "bridge/response/device/rename" /\ act'.resp.status = "ok")
        => \A d \in RenamesSettled \cap DOMAIN m_mqttByExternal :
             /\ \E i \in 1..Len(out') :
                  out'[i] = CmdResult(m_pendingRename[d].cmdId, "Success")
             /\ Value(m_mqttByExternal', d, d) = m_pendingRename[d].targetName ]_vars

(***************************************************************************)
(* Device registry: C14 .. C19                                             *)
(***************************************************************************)
\* the external ids of the devices that have an entry in a registry
IdsOf(devices) == {devices[k].id : k \in DOMAIN devices}

\* the device objects of the payload that a bridge/devices step handled
ObjsOf(a) == {a.objs[i] : i \in 1..Len(a.objs)}

\* C14: when a bridge/devices payload reports, as interviewed and supported, an
\* ieee_address that is mapped to another mqtt_id than the reported friendly
\* name, then after the payload the entry of that external id is stored under the
\* new name with mqtt_id the new name and the bindings it had, no other key holds
\* an entry of that external id, no state payload is left buffered under the old
\* name, and the external id resolves to the new name.
C14_RenameMovesEntry ==
  [][ act'.name = "bridge/devices"
        => \A o \in ObjsOf(act') :
             LET id == o.ieee_address
                 new == o.friendly_name
                 old == Value(m_mqttByExternal, id, new)
             IN (o.usable /\ old # new)
                  => /\ new \in DOMAIN m_devices'
                     /\ m_devices'[new].id = id
                     /\ m_devices'[new].mqttId = new
                     /\ old \in DOMAIN m_devices
                          => m_devices'[new].bindingsByChannel
                               = m_devices[old].bindingsByChannel
                     /\ \A k \in DOMAIN m_devices' \ {new} : m_devices'[k].id # id
                     /\ old \in DOMAIN m_pendingStatePayloads
                          => old \notin DOMAIN m_pendingStatePayloads'
                     /\ Value(m_mqttByExternal', id, "") = new ]_vars

\* C15: a device of the registry that a bridge/devices payload does not list loses
\* its entry exactly when the payload is a full snapshot (topic bridge/devices),
\* and then device_removed is emitted with its external id; a payload on
\* bridge/response/devices leaves the entry of every device it does not list.
C15_OnlySnapshotRemovesOmitted ==
  [][ act'.name = "bridge/devices" /\ act'.objs # <<>>
        => \A id \in IdsOf(m_devices) \ {o.ieee_address : o \in ObjsOf(act')} :
             IF act'.fullSnapshot
             THEN /\ id \notin IdsOf(m_devices')
                  /\ \E i \in 1..Len(out') : out'[i] = DeviceRemoved(id)
             ELSE id \in IdsOf(m_devices') ]_vars

\* C16: the entry of a device leaves the registry only in a bridge/devices step
\* whose payload reports the device as not interviewed or not supported, or is a
\* full snapshot that does not list the device, and that step emits
\* device_removed with the external id of the entry.
C16_DestroyedOnlyByBridgeDevices ==
  [][ \A id \in IdsOf(m_devices) \ IdsOf(m_devices') :
        /\ act'.name = "bridge/devices"
        /\ \/ \E o \in ObjsOf(act') : o.ieee_address = id /\ ~o.usable
           \/ /\ act'.fullSnapshot
              /\ \A o \in ObjsOf(act') : o.ieee_address # id
        /\ \E i \in 1..Len(out') : out'[i] = DeviceRemoved(id) ]_vars

\* the same payload ingested once more, right after the bridge/devices step that
\* led to the current state
SecondIngestion ==
  handleBridgeDevicesPayload(
    [devices |-> m_devices, byExternal |-> m_mqttByExternal, rename |-> m_pendingRename,
     pending |-> m_pendingStatePayloads, out |-> <<>>, deferred |-> <<>>, seen |-> {},
     coordinatorId |-> m_coordinatorId, info |-> m_pendingBridgeInfo,
     connected |-> m_mqttConnected /\ m_bridgeOnline],
    act.objs, act.fullSnapshot, m_pendingFullSync)

\* the second ingestion leaves the registry, the index and the buffers as the
\* first left them and emits no device_removed
SecondIngestionKeepsState ==
  /\ SecondIngestion.devices = m_devices
  /\ SecondIngestion.byExternal = m_mqttByExternal
  /\ SecondIngestion.pending = m_pendingStatePayloads
  /\ SecondIngestion.rename = m_pendingRename
  /\ OfKind(SecondIngestion.out, "deviceRemoved") = <<>>

\* C17: after a bridge/devices payload was ingested, ingesting it again changes
\* neither the registry nor the index nor the buffers, emits no device_removed
\* and emits one device_updated per device the payload lists as interviewed and
\* supported.
C17_Idempotent ==
  (act.name = "bridge/devices" /\ act.objs # <<>>)
    => /\ SecondIngestionKeepsState
       /\ Len(OfKind(SecondIngestion.out, "deviceUpdated"))
            = Len(SelectSeq(act.objs, LAMBDA o : o.usable))

\* what the ingestion of a state payload emits for the device of a device_updated
Ingested(updated, payload) ==
  handleDeviceStatePayload(
    updated.name :> [mqttId |-> updated.name, id |-> updated.device,
                     bindingsByChannel |-> bindingsByChannel],
    EmptyHash, updated.name, payload).out

\* the step emitted a device_updated and, right after it, the ingestion of payload
DeliveredAfterUpdate(o, payload) ==
  \E i \in 1..Len(o) :
    /\ o[i].k = "deviceUpdated"
    /\ i + Len(Ingested(o[i], payload)) <= Len(o)
    /\ SubSeq(o, i + 1, i + Len(Ingested(o[i], payload))) = Ingested(o[i], payload)

\* C18: a state payload that arrives for an unknown device is buffered under its
\* mqtt_id and nothing is emitted; a buffered payload stays buffered (under its
\* name, or under the new name of a renamed device) until a bridge/devices step
\* delivers it right after a device_updated, unless an entry of the payload reports
\* its device as not interviewed or not supported; no step loses it otherwise.
C18_BufferedUntilDelivered ==
  [][ /\ (act'.name = "deviceState" /\ act'.mqttId \notin DOMAIN m_devices)
           => /\ out' = <<>>
              /\ act'.mqttId \in DOMAIN m_pendingStatePayloads'
              /\ m_pendingStatePayloads'[act'.mqttId] = act'.payload
      /\ \A n \in DOMAIN m_pendingStatePayloads :
           \/ \E k \in DOMAIN m_pendingStatePayloads' :
                /\ m_pendingStatePayloads'[k] = m_pendingStatePayloads[n]
                /\ k = n \/ act'.name = "bridge/devices"
           \/ /\ act'.name = "bridge/devices"
              /\ \/ DeliveredAfterUpdate(out', m_pendingStatePayloads[n])
                 \/ \E o \in ObjsOf(act') : ~o.usable ]_vars

\* C19: full_sync_completed is emitted only by a bridge/devices step, while a
\* request_full_sync is outstanding, once, as the last event of the step (after
\* the device_updated events of the payload), and it ends the request; and the
\* next bridge/devices snapshot handled while a request is outstanding emits it.
C19_FullSyncCompletedOnce ==
  [][ /\ OfKind(out', "fullSyncCompleted") # <<>>
           => /\ act'.name = "bridge/devices"
              /\ m_pendingFullSync /\ ~m_pendingFullSync'
              /\ OfKind(out', "fullSyncCompleted") = <<FullSyncCompleted>>
              /\ out'[Len(out')] = FullSyncCompleted
      /\ (act'.name = "bridge/devices" /\ act'.fullSnapshot /\ m_pendingFullSync)
           => OfKind(out', "fullSyncCompleted") # <<>> ]_vars

(***************************************************************************)
(* Ordering of the session events: C20                                     *)
(***************************************************************************)
\* C20: when a bridge/devices payload handled while the MQTT session is up emits
\* device_updated, connection_state_changed(true) was emitted before it in this
\* session, that is since the connected signal of the session was handled.
C20_ConnectedBeforeDeviceUpdated ==
  (/\ act.name = "bridge/devices" /\ m_mqttConnected
   /\ OfKind(out, "deviceUpdated") # <<>>)
    => sessionCsc

\* C21: when the connectivity default that a bridge/devices payload posted for a
\* device is emitted, no MQTT message that arrived after that payload has emitted
\* an event for the device in the meantime.
C21_DeferredKeepsArrivalOrder ==
  [][ (act'.name = "availabilityDefault" /\ out' # <<>>) => ~overtaken ]_vars

(***************************************************************************)
(* stop: C22 .. C24                                                        *)
(***************************************************************************)
\* C22: when stop has returned the MQTT client is released, the reconnect timer is
\* inactive, no post-set refresh timer is left and no state payload is buffered.
C22_StopReleasesEverything ==
  act.name = "stop"
    => /\ ~m_client
       /\ ~reconnectActive
       /\ m_postSetRefreshTimers = EmptyHash
       /\ m_pendingStatePayloads = EmptyHash

\* C23: between stop and the next start no timer callback takes effect: the
\* reconnect timeout queues no connect, the post-set refresh timeout publishes
\* nothing and the rename timeout emits no cmd_result.
C23_NoTimerEffectAfterStop ==
  [][ ~m_client
        => /\ act'.name = "reconnectTimeout" => wreq' = wreq
           /\ act'.name = "postSetRefreshTimeout" => out' = <<>>
           /\ act'.name = "renameTimeout" => out' = <<>> ]_vars

\* C24: a stop that directly follows a stop, and a stop before any start, emits
\* nothing and leaves the client, the flags, the timers, the worker, the queued
\* signals, the registry and the buffers as they were.
C24_StopIdempotent ==
  [][ (act'.name = "stop" /\ act.name \in {"stop", "init"})
        => /\ out' = <<>>
           /\ UNCHANGED <<connVars, registryVars, timerVars, evq>> ]_vars

\* a second stop in a row, after a session that was connected
C24_Witness ==
  /\ act.name = "stop" /\ act.again
  /\ out = <<>>
  /\ lastCsc = <<FALSE>>
  /\ ~m_client /\ ~m_connected

(***************************************************************************)
(* Threads: C25                                                            *)
(***************************************************************************)
\* the callbacks mosquitto raises on its loop thread
Callbacks == {"mosquitto.on_connect", "mosquitto.on_disconnect", "mosquitto.on_message"}

\* the handlers of the adapter for the signals of the client
SignalHandlers ==
  {"stateChanged", "connected", "disconnected", "errorOccurred", "bridge/state",
   "bridge/devices", "deviceState", "availability", "bridge/response/device/rename",
   "bridge/response/device/get"}

\* C25: a callback of the MQTT library emits nothing and changes neither the
\* client object nor the flags, the registry, the indexes, the pending maps or the
\* timers of the adapter: it only appends its signals to the queue of the adapter
\* thread; a handler of the adapter runs for the signal at the head of that queue
\* and removes exactly that one.
C25_CallbacksAreQueued ==
  [][ /\ act'.name \in Callbacks
           => /\ out' = <<>>
              /\ UNCHANGED <<ip, m_client, clientState, adapterVars, registryVars, timerVars>>
              /\ Len(evq') > Len(evq)
              /\ SubSeq(evq', 1, Len(evq)) = evq
      /\ act'.name \in SignalHandlers
           => /\ evq # <<>>
              /\ Len(evq') >= Len(evq) - 1
              /\ SubSeq(evq', 1, Len(evq) - 1) = Tail(evq) ]_vars

\* the broker accepted the connection and the callback has queued connected; the
\* adapter has not handled it yet
C25_Witness ==
  /\ act.name = "mosquitto.on_connect" /\ act.rc = 0
  /\ wstate = "Connected"
  /\ \E i \in 1..Len(evq) : evq[i] = EvConnected
  /\ ~m_mqttConnected /\ ~m_connected /\ clientState # "Connected"

(***************************************************************************)
(* Bridge options and adapter actions: C26, C27                            *)
(***************************************************************************)
\* the bridge/request/options requests among the emissions of a step
OptionsRequests(o) ==
  SelectSeq(o, LAMBDA e : e.k = "publish" /\ e.topic = <<"bridge", "request", "options">>)

\* C26: the last_seen option is requested by the handler of the first bridge/state
\* online message, once, and by no later step, whatever toggles of the bridge
\* state, disconnects and reconnects follow.
C26_LastSeenOneShot ==
  [][ IF act'.name = "bridge/state" /\ act'.p = "online" /\ ~m_lastSeenRequested
      THEN /\ Len(OptionsRequests(out')) = 1
           /\ out'[Len(out')].payload = ("last_seen" :> "epoch")
           /\ m_lastSeenRequested'
      ELSE /\ OptionsRequests(out') = <<>>
           /\ m_lastSeenRequested' = m_lastSeenRequested ]_vars

\* the bridge came back online after the option had been requested: the adapter
\* reports connected again and requests nothing
C26_Witness ==
  /\ act.name = "bridge/state" /\ act.p = "online"
  /\ m_lastSeenRequested
  /\ ~prevConnected /\ m_connected
  /\ out = <<Csc(TRUE)>>

\* the adapter can serve permitJoin and restartZ2M: the client is connected and
\* the bridge is online
ActionReady == m_client /\ clientState = "Connected" /\ m_bridgeOnline

\* what a call of permitJoin or restartZ2M emits: the request and Success when
\* the adapter is ready and the publish is accepted, Failure otherwise, and no
\* publish when the adapter is not ready
BridgeActionOutcome ==
  IF ActionReady
  THEN /\ Len(out') = 2
       /\ out'[1].k = "publish"
       /\ out'[1].topic = actionTopic(act'.actionId)
       /\ out'[2] = ActionResult(act'.cmdId, IF out'[1].r = "ok" THEN "Success" ELSE "Failure")
  ELSE out' = <<ActionResult(act'.cmdId, "Failure")>>

\* C27 as stated: every call of invokeAdapterAction emits one actionResult:
\* permitJoin and restartZ2M as in BridgeActionOutcome, settings emits
\* adapterMetaUpdated(params) and Success, every other action id NotImplemented.
C27_OneActionResultPerCall ==
  [][ act'.name = "invokeAdapterAction" =>
        CASE act'.actionId \in {"permitJoin", "restartZ2M"} -> BridgeActionOutcome
          [] act'.actionId = "settings" ->
               out' = <<AdapterMetaUpdated(act'.params), ActionResult(act'.cmdId, "Success")>>
          [] OTHER -> out' = <<ActionResult(act'.cmdId, "NotImplemented")>> ]_vars

\* C27 amended: as C27, except that a call with command id 0 (an untracked
\* command) of settings or of an unknown action id emits no actionResult.
C27_OneActionResultPerTrackedCall ==
  [][ act'.name = "invokeAdapterAction" =>
        CASE act'.actionId \in {"permitJoin", "restartZ2M"} -> BridgeActionOutcome
          [] act'.actionId = "settings" ->
               out' = <<AdapterMetaUpdated(act'.params)>>
                      \o (IF act'.cmdId = 0 THEN <<>>
                          ELSE <<ActionResult(act'.cmdId, "Success")>>)
          [] OTHER -> out' = IF act'.cmdId = 0 THEN <<>>
                             ELSE <<ActionResult(act'.cmdId, "NotImplemented")>> ]_vars

\* permitJoin was published and succeeded
C27_Witness ==
  /\ act.name = "invokeAdapterAction"
  /\ act.actionId = "permitJoin"
  /\ Len(out) = 2 /\ out[2].k = "actionResult" /\ out[2].status = "Success"

(***************************************************************************)
(* Error handling: C28, C29                                                *)
(***************************************************************************)
\* C28: start with no host configured makes no connect attempt, emits
\* errorOccurred for the configuration problem, and returns ok.
C28_StartWithoutHostSurfacesError ==
  [][ (act'.name = "start" /\ ip = "") =>
        /\ wreq' = wreq
        /\ OfKind(out', "errorOccurred") # <<>>
        /\ act'.ok ]_vars

\* the payloads of an availability topic that carry a state
AvailabilityStates == {"online", "offline", "{\"state\":\"online\"}", "{\"state\":\"offline\"}"}

\* the step handled a message with a malformed or unexpected payload
MalformedHandled ==
  \/ act'.name = "unparsable"
  \/ act'.name = "availability" /\ act'.payload \notin AvailabilityStates
  \/ act'.name = "bridge/devices" /\ act'.objs = <<>>

\* C29: a message with a malformed payload is dropped: the registry, the indexes,
\* the pending maps, the connection flags and the pending-full-sync flag are
\* unchanged and no event is emitted.
C29_MalformedDropped ==
  [][ MalformedHandled =>
        /\ out' = <<>>
        /\ UNCHANGED <<m_devices, m_mqttByExternal, m_pendingRename, m_pendingStatePayloads,
                       m_connected, m_mqttConnected, m_bridgeOnline, m_pendingFullSync>> ]_vars

(***************************************************************************)
(* Typed channel values: C30                                               *)
(***************************************************************************)
\* the type a value of a data type has
TypeOfDataType(dataType) ==
  CASE dataType = "Bool" -> "Bool"
    [] dataType = "Int" -> "Int"
    [] dataType = "Float" -> "Double"
    [] dataType = "String" -> "String"
    [] dataType = "Color" -> "Color"
    [] dataType = "Enum" -> "Int"

\* C30: the type of every emitted channelStateUpdated value is the type of the
\* data type declared for its channel (an Enum value is an integer).
C30_ValueTypeMatchesDataType ==
  act.name = "decode" =>
    \A i \in DOMAIN out : out[i].v.type = TypeOfDataType(act.binding.dataType)

(***************************************************************************)
(* Enum channels: C31, C33                                                 *)
(***************************************************************************)
Injective(map) == \A a, b \in DOMAIN map : a # b => map[a] # map[b]

\* C31: every Enum channel has choices and an injective map from raw values to
\* integers.
C31_EnumChoicesAndInjective ==
  act.name \in {"addEnumChannel", "addImplicitChannel"} =>
    act.choices # <<>> /\ Injective(act.enumRawToValue)

\* the enum map of the raw values listed before the last one
EnumMapBefore == fallbackMap(act.channelId, SubSeq(act.values, 1, Len(act.values) - 1))

\* C33: when the enum of a property gains a raw value, every raw value listed
\* before keeps its integer and the new one gets the largest integer plus one; the
\* map of the same raw values is the same whenever it is built.
C33_EnumMapStable ==
  (act.name = "addEnumChannel" /\ Len(act.values) >= 2) =>
    /\ \A k \in DOMAIN EnumMapBefore : act.enumMap[k] = EnumMapBefore[k]
    /\ act.enumMap[act.values[Len(act.values)]] = maxValueOf(EnumMapBefore) + 1
    /\ act.enumMap = fallbackMap(act.channelId, act.values)

(***************************************************************************)
(* Implicit channels: C32                                                  *)
(***************************************************************************)
ChannelsWithId(entry, id) == SelectSeq(entry.channels, LAMBDA c : c.id = id)

\* C32: a device entry has exactly one connectivity and exactly one
\* device_software_update channel, neither writable, and the binding
\* updateChannelState finds for either is not writable (NotSupported).
C32_OneImplicitChannelEach ==
  act.name = "buildDeviceEntry" =>
    \A id \in {"connectivity", "device_software_update"} :
      /\ Len(ChannelsWithId(act.entry, id)) = 1
      /\ ~ChannelsWithId(act.entry, id)[1].writable
      /\ ~act.entry.bindingsByChannel[id]

(***************************************************************************)
(* Brightness scaling: C34                                                 *)
(***************************************************************************)
AbsDiff(a, b) == IF a >= b THEN a - b ELSE b - a

\* C34: a brightness binding decodes every raw value to a percent in 0..100,
\* clamping raw values outside [rawMin, rawMax]; encoding the decoded percent of
\* a raw value of the range gives the raw value back within rawStep / 2; encoding
\* clamps a percent outside 0..100.
C34_BrightnessRoundTrip ==
  /\ act.name = "decodeBrightness" =>
        LET b == act.binding
        IN /\ 0 <= act.percent.num /\ act.percent.num <= 100 * act.percent.den
           /\ act.raw <= b.rawMin => act.percent.num = 0
           /\ act.raw >= b.rawMax => act.percent.num = 100 * act.percent.den
           /\ (b.rawMin <= act.raw /\ act.raw <= b.rawMax) =>
                 2 * AbsDiff(act.encoded.num, act.raw * act.encoded.den)
                   <= b.rawStep * act.encoded.den
  /\ act.name = "encodeBrightness" =>
        LET b == act.binding
        IN /\ b.rawMin * act.encoded.den <= act.encoded.num
           /\ act.encoded.num <= b.rawMax * act.encoded.den
           /\ act.percent <= 0 => act.encoded.num = b.rawMin * act.encoded.den
           /\ act.percent >= 100 => act.encoded.num = b.rawMax * act.encoded.den

\* a raw value inside the default range 0..254 of an expose without a range was
\* decoded to 50 percent and encoded back
C34_Witness ==
  /\ act.name = "decodeBrightness"
  /\ act.expose.value_max <= act.expose.value_min
  /\ act.raw = 127
  /\ act.percent.num = 50 * act.percent.den
  /\ act.encoded.num = 127 * act.encoded.den

(***************************************************************************)
(* Rename response, bridge info, registry indexes: C35 .. C37               *)
(***************************************************************************)
\* C35: a rename response with status ok that completes the pending rename of a
\* known device emits Success for it and the connectivity of that device as
\* Connected.
C35_RenameReemitsConnectivity ==
  [][ (act'.name = "bridge/response/device/rename" /\ act'.resp.status = "ok") =>
        \A d \in RenamesSettled \cap DOMAIN m_mqttByExternal :
          /\ \E i \in DOMAIN out' : out'[i] = CmdResult(m_pendingRename[d].cmdId, "Success")
          /\ \E i \in DOMAIN out' : out'[i] = Csu(d, "connectivity", "Connected") ]_vars

(***************************************************************************)
(* The coordinator and bridge/info                                         *)
(***************************************************************************)
\* the non-empty bridge/info objects the model tells apart
BridgeInfos == {"info1", "info2"}

\* the coordinator's object of the bridge/devices array
CoordinatorObj ==
  [type |-> "Coordinator"] @@ DeviceObj("Coordinator", "0x0", TRUE, "")

InfoPayloads ==
  {<<CoordinatorObj>>, <<DeviceObj("lamp", "0xA", TRUE, "")>>,
   <<DeviceObj("lamp", "0xA", TRUE, ""), CoordinatorObj>>}

InfoMessages ==
  {EvMessage(t, p) : t \in {<<"bridge", "devices">>, <<"bridge", "response", "devices">>},
                     p \in InfoPayloads}
    \cup {EvMessage(<<"bridge", "info">>, p) : p \in BridgeInfos}

\* handleMqttMessage, topic <baseTopic>/bridge/info
onBridgeInfo ==
  /\ ~crashed
  /\ evq # <<>> /\ Head(evq).t = "messageReceived"
  /\ Head(evq).topic = <<"bridge", "info">>
  /\ LET payload == Head(evq).p
         r == handleBridgeInfoPayload(m_devices, m_mqttByExternal, m_coordinatorId,
                                      m_pendingBridgeInfo,
                                      m_mqttConnected /\ m_bridgeOnline, payload)
     IN /\ m_devices' = r.devices
        /\ m_pendingBridgeInfo' = r.info
        /\ Emit([name |-> "bridge/info", p |-> payload], r.out)
  /\ evq' = Tail(evq)
  /\ UNCHANGED <<connVars, m_coordinatorId, m_mqttByExternal, m_pendingRename,
                 m_pendingStatePayloads, deferred, timerVars>>

handleInfoMessage ==
  /\ deliver(InfoMessages, MaxInFlight)
  /\ UNCHANGED <<registryVars, timerVars>>

NextInfo ==
  \/ start
  \/ onStateChanged
  \/ onConnected
  \/ onErrorOccurred
  \/ onBridgeDevices
  \/ onBridgeInfo
  \/ availabilityDefault
  \/ workerConnectToHost
  \/ handleConnect
  \/ handleInfoMessage

SpecInfo == InitCmd /\ [][NextInfo]_vars

\* the registry holds the coordinator's entry
CoordinatorKnown ==
  \E key \in DOMAIN m_devices : m_devices[key].id = CoordinatorObj.ieee_address

\* how often a step applied the bridge/info object p: emitted it as adapter meta
Applications(o, p) ==
  Cardinality({i \in DOMAIN o : o[i] = AdapterMetaPatch("bridge_info" :> p)})

\* the coordinator's entry carries the bridge/info object p
CoordinatorCarries(devices, p) ==
  \E key \in DOMAIN devices :
    /\ devices[key].id = CoordinatorObj.ieee_address
    /\ "bridge_info" \in DOMAIN devices[key]
    /\ devices[key].bridge_info = p
    /\ devices[key].deviceClass = "Gateway"

\* C36: a bridge/info payload that arrives while the registry has no coordinator
\* entry is buffered and changes nothing; the bridge/devices payload that brings
\* the coordinator applies the buffered payload exactly once and empties the
\* buffer; a payload that arrives while the coordinator is known is applied at
\* once; no other step applies a payload or touches the buffer
C36_BridgeInfoBufferedUntilCoordinator ==
  [][ /\ (act'.name = "bridge/info" /\ ~CoordinatorKnown) =>
          /\ m_pendingBridgeInfo' = act'.p
          /\ m_devices' = m_devices
          /\ out' = <<>>
      /\ (act'.name = "bridge/info" /\ CoordinatorKnown) =>
          /\ Applications(out', act'.p) = 1
          /\ CoordinatorCarries(m_devices', act'.p)
          /\ m_pendingBridgeInfo' = m_pendingBridgeInfo
      /\ (/\ act'.name = "bridge/devices"
          /\ \E i \in DOMAIN act'.objs : act'.objs[i] = CoordinatorObj
          /\ m_pendingBridgeInfo # "") =>
          /\ Applications(out', m_pendingBridgeInfo) = 1
          /\ CoordinatorCarries(m_devices', m_pendingBridgeInfo)
          /\ m_pendingBridgeInfo' = ""
      /\ (/\ act'.name # "bridge/info"
          /\ ~(/\ act'.name = "bridge/devices"
                /\ \E i \in DOMAIN act'.objs : act'.objs[i] = CoordinatorObj)) =>
          /\ m_pendingBridgeInfo' = m_pendingBridgeInfo
          /\ \A p \in BridgeInfos : Applications(out', p) = 0 ]_vars

\* a bridge/devices payload with the coordinator has just applied a buffered
\* bridge/info payload
C36_Witness ==
  /\ act.name = "bridge/devices"
  /\ \E p \in BridgeInfos : Applications(out, p) = 1 /\ CoordinatorCarries(m_devices, p)
  /\ m_pendingBridgeInfo = ""

(***************************************************************************)
(* The registry and its external-id index                                  *)
(***************************************************************************)
\* every entry is stored under its own mqtt id and indexed by its device id
EntriesIndexed ==
  \A k \in DOMAIN m_devices :
    /\ m_devices[k].mqttId = k
    /\ m_devices[k].id \in DOMAIN m_mqttByExternal
    /\ m_mqttByExternal[m_devices[k].id] = k

\* the index names only keys that hold the entry of that device id
IndexResolves ==
  \A e \in DOMAIN m_mqttByExternal :
    /\ m_mqttByExternal[e] \in DOMAIN m_devices
    /\ m_devices[m_mqttByExternal[e]].id = e

\* C37: after any sequence of bridge/devices payloads with pairwise distinct
\* friendly names and IEEE addresses, every entry stored under key k has mqtt id
\* k and is indexed under its device id, and the index maps no external id to an
\* absent key or to an entry of another device
C37_RegistryIndexConsistent == EntriesIndexed /\ IndexResolves

(***************************************************************************)
(* MQTT events handled after stop                                          *)
(***************************************************************************)
\* the steps that handle a signal of the MQTT client
MqttEventSteps == {"connected", "disconnected", "errorOccurred", "bridge/state"}

\* C38: an MQTT event that was queued when stop ran and is handled after stop
\* released the client publishes nothing and dereferences no null client
C38_StaleEventNeverUsesReleasedClient ==
  [][ (~m_client /\ ~m_client' /\ act'.name \in MqttEventSteps) =>
        /\ ~crashed'
        /\ \A i \in DOMAIN out' : out'[i].k \notin {"publish", "subscribe"} ]_vars

(***************************************************************************)
(* Channel states of removed devices                                       *)
(***************************************************************************)
\* bridge/devices payloads that add a device with a reported availability and
\* that remove it: by an unsupported entry, or by a snapshot that omits it
RemovalPayloads ==
  {<<DeviceObj("lamp", "0xA", TRUE, "online")>>,
   <<DeviceObj("lamp", "0xA", FALSE, "")>>,
   <<DeviceObj("desk", "0xB", TRUE, "")>>}

RemovalMessages ==
  {EvMessage(<<"bridge", "devices">>, p) : p \in RemovalPayloads}
    \cup {EvMessage(<<"lamp">>, "temperature" :> "21")}

handleRemovalMessage ==
  /\ deliver(RemovalMessages, MaxInFlight)
  /\ UNCHANGED <<registryVars, timerVars>>

\* the adapter, started and stopped by the host, and a bridge whose devices come
\* and go while they report their state
NextRemoval ==
  \/ start
  \/ stop
  \/ onStateChanged
  \/ onConnected
  \/ onErrorOccurred
  \/ onBridgeDevices
  \/ onDeviceState
  \/ availabilityDefault
  \/ workerConnectToHost
  \/ handleConnect
  \/ handleRemovalMessage

SpecRemoval == InitCmd /\ [][NextRemoval]_vars

\* the events o, emitted in their order after the devices in removed were
\* removed, hold a channelStateUpdated of a device that is removed at that point
RECURSIVE StateAfterRemoval(_, _)
StateAfterRemoval(o, removed) ==
  IF o = <<>> THEN FALSE
  ELSE LET e == Head(o)
       IN IF e.k = "channelStateUpdated" /\ e.device \in removed THEN TRUE
          ELSE StateAfterRemoval(Tail(o), RemovedAfter(<<e>>, removed))

\* C39: after deviceRemoved is emitted for a device, no channelStateUpdated is
\* emitted for that device id until a later deviceUpdated re-adds it, the
\* deferred connectivity update of bridge/devices included
C39_NoStateAfterRemoval ==
  [][ ~StateAfterRemoval(out', removedIds) ]_vars

(***************************************************************************)
(* Reconnecting after a configuration change                               *)
(***************************************************************************)
\* the broker addresses a configuration change of a connected adapter sets
NewHosts == {"broker", "broker2"}

\* adapterConfigUpdated called while the adapter is connected
adapterConfigUpdatedConnected ==
  /\ m_connected
  /\ configUpdated(NewHosts)

\* MqttWorker::handleDisconnect, called for a session that mosquitto_disconnect
\* closed or found lost
handleRequestedDisconnect ==
  /\ mosqDisconnect
  /\ handleDisconnect

NextReconnect ==
  \/ start
  \/ adapterConfigUpdatedConnected
  \/ reconnectTimeout
  \/ onStateChanged
  \/ onConnected
  \/ onDisconnected
  \/ onErrorOccurred
  \/ workerConnectToHost
  \/ workerDisconnectFromHost
  \/ handleConnect
  \/ handleRequestedDisconnect

\* the event loop of the adapter thread handles every queued signal and fires
\* the running reconnect timer; the event loop of the worker thread runs every
\* queued invocation; mosquitto's loop thread calls on_disconnect for a session
\* that mosquitto_disconnect closed or found lost; the broker is reachable: of
\* the connect attempts that keep being made, one is accepted
FairReconnect ==
  /\ WF_vars(onStateChanged)
  /\ WF_vars(onConnected)
  /\ WF_vars(onDisconnected)
  /\ WF_vars(onErrorOccurred)
  /\ WF_vars(reconnectTimeout)
  /\ WF_vars(workerDisconnectFromHost)
  /\ WF_vars(workerConnectToHost)
  /\ WF_vars(handleRequestedDisconnect)
  /\ SF_vars(workerConnectToHost /\ wstate' = "Connecting")
  /\ SF_vars(handleConnect /\ wstate' = "Connected")

SpecReconnect == InitCmd /\ [][NextReconnect]_vars /\ FairReconnect

\* adapterConfigUpdated has just run on a connected adapter, with a broker
\* address configured
ConfigChangedWhileConnected ==
  /\ act.name = "adapterConfigUpdated"
  /\ prevConnected
  /\ act.ip # ""

\* the connected signal of a session with the configured host has just been
\* handled and the adapter subscribed
ReconnectedToConfiguredHost ==
  /\ act.name = "connected"
  /\ m_hostname = ip
  /\ \E i \in DOMAIN out : out[i].k = "subscribe"

\* C40: after adapterConfigUpdated is called while the adapter is connected, the
\* adapter eventually handles the disconnect of the old session and eventually
\* handles the connect of a session with the configured host, on which it
\* subscribes to <baseTopic>/#
C40_ConfigChangeReconnects ==
  <>[][act'.name # "adapterConfigUpdated"]_vars =>
    /\ ConfigChangedWhileConnected ~> (act.name = "disconnected")
    /\ ConfigChangedWhileConnected ~> ReconnectedToConfiguredHost
====
